---- MODULE Spec2Model ----
(***************************************************************************)
(* Model of the NFL stats dashboard data layer.                            *)
(*                                                                         *)
(*  - the Fallback Orchestrator of api.js (getCachedData, setCachedData,   *)
(*    isEmptyData, fetchWithCache) driven through the NFLAPI getters;      *)
(*  - the Reference Resolvers: the browser-side fetchQBStats /             *)
(*    fetchReceiverStats / fetchRushingStats of api.js and the batch       *)
(*    fetchPlayerStats of scripts/fetch-data.js.                           *)
(*                                                                         *)
(* JSON values are tagged records so that arrays, objects and null can be  *)
(* compared with each other.  localStorage is modelled as a reliable       *)
(* key -> entry store.  Every live fetch function that NFLAPI passes to    *)
(* fetchWithCache returns an array or throws an Error (api.js:132-610).    *)
(***************************************************************************)
EXTENDS Integers, Sequences, FiniteSets, Bags, TLC

\* ------------------------------------------------------------------------
\* Bounds
\* ------------------------------------------------------------------------
MaxSlack == 1
MaxCalls == 2
MaxLeaders == 2

\* the teams fetchTeamStats asks for (32 in the program)
MaxTeams == 3

\* the longest list a fetch step of main returns
MaxRecords == 1

\* ------------------------------------------------------------------------
\* Program constants
\* ------------------------------------------------------------------------
CACHE_DURATION == 5 * 60 * 1000

\* the Fallback Orchestrator
VARIABLES now, cache, calls, ret

\* one resolution pass over the leaders of one category
VARIABLES impl, cat, leaders, rpc, idx, settled, order, bucket

\* one run of the batch fetchPlayerStats
VARIABLES bimpl, bpc, data, fallbackData, ci, playerStats, requests, saved

\* one application of a function of the Period Calculator, the Category
\* Normalizer or the Remote Fetch Adapter
VARIABLES pfn, parg, pout

\* one run of main of the batch script: the step it is at, what the fetch
\* steps returned, the snapshot files, and the files written in order
VARIABLES mpc, fetched, files, writes

cvars == <<now, cache, calls, ret>>

rvars == <<impl, cat, leaders, rpc, idx, settled, order, bucket>>

bvars == <<bimpl, bpc, data, fallbackData, ci, playerStats, requests, saved>>

pvars == <<pfn, parg, pout>>

mvars == <<mpc, fetched, files, writes>>

vars == <<now, cache, calls, ret, impl, cat, leaders, rpc, idx, settled, order, bucket,
          bimpl, bpc, data, fallbackData, ci, playerStats, requests, saved,
          pfn, parg, pout, mpc, fetched, files, writes>>

\* ------------------------------------------------------------------------
\* JSON values
\* ------------------------------------------------------------------------
Fields == {"qb", "receivers", "rushers"}

\* value of a sub-field of the archival payload:
\* "absent" (undefined), "empty" ([]), "list" (non-empty array)
NoSub == [f \in Fields |-> "absent"]

JArr(s) == [kind |-> "array", elems |-> s, sub |-> NoSub]
JNull == [kind |-> "null", elems |-> <<>>, sub |-> NoSub]
JUndefined == [kind |-> "undefined", elems |-> <<>>, sub |-> NoSub]
Threw == [kind |-> "throw", elems |-> <<>>, sub |-> NoSub]

EmptyList == JArr(<<>>)

\* JavaScript truthiness of a JSON value (objects and arrays, even empty
\* ones, are truthy; null and undefined are falsy)
Truthy(d) == d.kind \in {"array", "object"}

\* ------------------------------------------------------------------------
\* NFLAPI configuration: cache key, static file and extract function of each
\* getter
\* ------------------------------------------------------------------------
Keys == {"team_stats", "qb_stats"}

\* the getter of key k passes 'data/player-stats.json' as its static file
HasStatic(k) == k \in {"qb_stats", "receiver_stats", "rushing_stats"}

ExtractField(k) ==
    CASE k = "qb_stats" -> "qb"
      [] k = "receiver_stats" -> "receivers"
      [] k = "rushing_stats" -> "rushers"
      [] OTHER -> "none"

HasExtract(k) == ExtractField(k) # "none"

\* (data) => data.<field> || data
ExtractFn(f, d) ==
    IF d.kind \in {"null", "undefined"} THEN Threw
    ELSE IF d.sub[f] = "list" THEN JArr(<<f>>)
    ELSE IF d.sub[f] = "empty" THEN EmptyList
    ELSE d

\* ------------------------------------------------------------------------
\* Cache management
\* ------------------------------------------------------------------------
NoEntry == [present |-> FALSE, data |-> JUndefined, timestamp |-> 0]

\* JSON.stringify followed by JSON.parse of the data member of the cache
\* object: arrays, objects and null survive, undefined is dropped by
\* stringify and reads back as undefined
JSONRoundTrip(d) == IF d.kind \in {"array", "object", "null"} THEN d ELSE JUndefined

isEmptyData(d) == (~Truthy(d)) \/ (d.kind = "array" /\ Len(d.elems) = 0)

\* the expiry test with the boundary on the wrong side
Expired_Inclusive(e, t) == t - e.timestamp >= CACHE_DURATION

\* now - timestamp > CACHE_DURATION
Expired(e, t) == t - e.timestamp > CACHE_DURATION

\* value returned by getCachedData(key) at time t
getCachedData(store, k, t) ==
    IF ~store[k].present THEN JNull
    ELSE IF Expired(store[k], t) THEN JNull
    ELSE store[k].data

\* the store after getCachedData(key) at time t (lazy eviction)
StoreAfterGet(store, k, t) ==
    IF store[k].present /\ Expired(store[k], t)
    THEN [store EXCEPT ![k] = NoEntry]
    ELSE store

\* the cache object stamped with the epoch instead of Date.now()
setCachedData_StaleStamp(store, k, d, t) ==
    [store EXCEPT ![k] = [present |-> TRUE, data |-> JSONRoundTrip(d), timestamp |-> 0]]

setCachedData(store, k, d, t) ==
    [store EXCEPT ![k] = [present |-> TRUE, data |-> JSONRoundTrip(d), timestamp |-> t]]

\* ------------------------------------------------------------------------
\* Environment: outcomes of the live fetch and of the archival read
\* ------------------------------------------------------------------------
LiveOutcomes == {Threw, EmptyList, JArr(<<"live">>)}

\* the payload of the static file: null, or an object whose qb member is
\* absent, empty or a list
Payloads ==
    {JNull}
    \cup {[kind |-> "object", elems |-> <<>>,
           sub |-> [f \in Fields |-> IF f = "qb" THEN v ELSE "list"]] :
              v \in {"absent", "empty", "list"}}

\* fetch(staticFile) rejects; resolves with a non-OK status; resolves OK with
\* a body that response.json() rejects; resolves OK with a JSON payload
NoResponse == [fetch |-> "none", ok |-> FALSE, body |-> JUndefined]

StaticResponses ==
    {[fetch |-> "reject", ok |-> FALSE, body |-> JUndefined],
     [fetch |-> "resolve", ok |-> FALSE, body |-> JUndefined],
     [fetch |-> "resolve", ok |-> TRUE,
      body |-> [kind |-> "unparsable", elems |-> <<>>, sub |-> NoSub]]}
    \cup {[fetch |-> "resolve", ok |-> TRUE, body |-> p] : p \in Payloads}

\* ------------------------------------------------------------------------
\* fetchWithCache
\* ------------------------------------------------------------------------
\* a call that is never resumed once it waits for the static file
InFlight_NeverResumed(pc, k, liveRes, log) ==
    [pc |-> IF pc = "static" THEN "lost" ELSE pc, key |-> k, liveRes |-> liveRes, log |-> log]

\* a call in flight: where it is suspended (awaiting fetchFunction() or
\* awaiting fetch(staticFile)), its key, what the live fetch gave, and the
\* network calls it has issued so far
InFlight(pc, k, liveRes, log) == [pc |-> pc, key |-> k, liveRes |-> liveRes, log |-> log]

\* the most recently returned call: its key, the stage that produced the
\* value (how), the time it returned, what the live fetch and the archival
\* read gave, the value returned, the network calls issued, and (prior) how
\* the previous call with this key ended if that was within the cache window
NoReturn == [key |-> "none", how |-> "none", prior |-> "none", t |-> 0,
             liveRes |-> JUndefined, staticRes |-> NoResponse,
             result |-> JUndefined, log |-> <<>>]

\* the archival payload after the optional extract function
DataToCache(k, resp) ==
    IF HasExtract(k) THEN ExtractFn(ExtractField(k), resp.body) ELSE resp.body

\* the archival stage fails: fetch rejected, non-OK status, body not JSON,
\* or the extract function threw (all land in catch (staticError))
StaticFailed(k, resp) ==
    \/ resp.fetch # "resolve"
    \/ ~resp.ok
    \/ resp.body.kind = "unparsable"
    \/ DataToCache(k, resp).kind = "throw"

\* the archival stage letting the failure escape to the caller
StaticStage_Rethrow(k, resp) ==
    IF StaticFailed(k, resp) THEN [result |-> Threw, write |-> FALSE]
    ELSE IF isEmptyData(DataToCache(k, resp)) THEN [result |-> EmptyList, write |-> FALSE]
    ELSE [result |-> DataToCache(k, resp), write |-> TRUE]

\* the archival stage returning the data without caching it
StaticStage_NoCache(k, resp) ==
    IF StaticFailed(k, resp) THEN [result |-> EmptyList, write |-> FALSE]
    ELSE IF isEmptyData(DataToCache(k, resp)) THEN [result |-> EmptyList, write |-> FALSE]
    ELSE [result |-> DataToCache(k, resp), write |-> FALSE]

\* the archival stage without the check for empty extracted data
StaticStage_CachesEmpty(k, resp) ==
    IF StaticFailed(k, resp) THEN [result |-> EmptyList, write |-> FALSE]
    ELSE [result |-> DataToCache(k, resp), write |-> TRUE]

\* outcome of the archival stage: the value returned and whether it is cached
StaticStage(k, resp) ==
    IF StaticFailed(k, resp) THEN [result |-> EmptyList, write |-> FALSE]
    ELSE IF isEmptyData(DataToCache(k, resp)) THEN [result |-> EmptyList, write |-> FALSE]
    ELSE [result |-> DataToCache(k, resp), write |-> TRUE]

\* the live stage treating every empty result as a failure
LiveFailed_IgnoresStatic(k, r) == r.kind = "throw" \/ isEmptyData(r)

\* the live stage fails: fetchFunction threw, or returned empty data while a
\* static file is configured
LiveFailed(k, r) == r.kind = "throw" \/ (isEmptyData(r) /\ HasStatic(k))

\* the cache test rejecting an empty cached list
CacheHit_NonEmpty(cachedData) == ~isEmptyData(cachedData)

\* if (cachedData)
CacheHit(cachedData) == Truthy(cachedData)

\* how the previous call with key k ended, if it returned within the window
Prior(k) ==
    IF ret.key = k /\ now - ret.t <= CACHE_DURATION THEN ret.how ELSE "none"

Return(call, how, liveRes, staticRes, result) ==
    [key |-> call.key, how |-> how, prior |-> "none", t |-> now,
     liveRes |-> liveRes, staticRes |-> staticRes,
     result |-> result, log |-> call.log]

\* fetchWithCache up to its first await: cache lookup, then either return the
\* cached data or invoke fetchFunction
Start(k) ==
    /\ BagCardinality(calls) < MaxCalls
    /\ LET cachedData == getCachedData(cache, k, now)
       IN /\ cache' = StoreAfterGet(cache, k, now)
          /\ IF CacheHit(cachedData)
             THEN /\ calls' = calls
                  /\ ret' = [NoReturn EXCEPT !.key = k, !.how = "cache", !.t = now,
                                             !.prior = Prior(k), !.result = cachedData]
             ELSE /\ calls' = calls (+) SetToBag({InFlight("live", k, JUndefined, <<"live">>)})
                  /\ ret' = ret
    /\ now' = now
    /\ UNCHANGED <<rvars, bvars, pvars, mvars>>

\* fetchFunction() settles with r
LiveSettle(call, r) ==
    /\ BagIn(call, calls)
    /\ call.pc = "live"
    /\ LET k == call.key
           rest == calls (-) SetToBag({call})
       IN IF ~LiveFailed(k, r)
          THEN /\ cache' = setCachedData(cache, k, r, now)
               /\ calls' = rest
               /\ ret' = Return(call, "live", r, NoResponse, r)
          ELSE IF HasStatic(k)
          THEN /\ calls' = rest (+) SetToBag({InFlight("static", k, r, Append(call.log, "static"))})
               /\ UNCHANGED <<cache, ret>>
          ELSE /\ calls' = rest
               /\ ret' = Return(call, "empty", r, NoResponse, EmptyList)
               /\ cache' = cache
    /\ now' = now
    /\ UNCHANGED <<rvars, bvars, pvars, mvars>>

\* fetch(staticFile) and response.json() settle with resp
StaticSettle(call, resp) ==
    /\ BagIn(call, calls)
    /\ call.pc = "static"
    /\ LET k == call.key
           out == StaticStage(k, resp)
       IN /\ cache' = IF out.write THEN setCachedData(cache, k, out.result, now) ELSE cache
          /\ calls' = calls (-) SetToBag({call})
          /\ ret' = Return(call, IF out.write THEN "static" ELSE "empty",
                           call.liveRes, resp, out.result)
    /\ now' = now
    /\ UNCHANGED <<rvars, bvars, pvars, mvars>>

\* time passes, to one of the instants at which something happens: the
\* start of the run and the end of the first cache window, each followed by
\* a few milliseconds
Tick ==
    /\ \E t \in {w * CACHE_DURATION + s : w \in {0, 1}, s \in 0..MaxSlack} :
          t > now /\ now' = t
    /\ UNCHANGED <<cache, calls, ret>>
    /\ UNCHANGED <<rvars, bvars, pvars, mvars>>

\* a leaders response that was not received
NoData == [kind |-> "none", categories |-> <<>>]

\* playerStats before any category was processed
NoBuckets == [k \in {"qb", "receivers", "rushers"} |-> <<>>]

\* player-stats.json before saveToFile
NotSaved == [written |-> FALSE, content |-> NoBuckets]

\* no function applied yet: neither argument nor result
NoOut == [kind |-> "none"]

InitCache ==
    /\ now = 0
    /\ cache = [k \in Keys |-> NoEntry]
    /\ calls = EmptyBag
    /\ ret = NoReturn

\* no resolution pass is running
InitNoPass ==
    /\ impl = "none"
    /\ cat = "none"
    /\ leaders = <<>>
    /\ rpc = "off"
    /\ idx = 0
    /\ settled = <<>>
    /\ order = <<>>
    /\ bucket = <<>>

\* the batch fetchPlayerStats is not running
InitNoBatch ==
    /\ bimpl = "none"
    /\ bpc = "off"
    /\ data = NoData
    /\ fallbackData = NoData
    /\ ci = 0
    /\ playerStats = NoBuckets
    /\ requests = <<>>
    /\ saved = NotSaved

\* a snapshot file that does not exist
NoFile == [present |-> FALSE, run |-> 0, data |-> [absent |-> <<>>]]

\* main is not running
InitNoMain ==
    /\ mpc = 0
    /\ fetched = [s \in {} |-> <<>>]
    /\ files = [f \in {} |-> NoFile]
    /\ writes = <<>>

\* no function is being applied
InitNoPure ==
    /\ pfn = "none"
    /\ parg = NoOut
    /\ pout = NoOut

Init == InitCache /\ InitNoPass /\ InitNoBatch /\ InitNoPure /\ InitNoMain

Next ==
    \/ \E k \in Keys : Start(k)
    \/ \E call \in BagToSet(calls), r \in LiveOutcomes : LiveSettle(call, r)
    \/ \E call \in BagToSet(calls), resp \in StaticResponses : StaticSettle(call, resp)
    \/ Tick

Spec == Init /\ [][Next]_vars

\* ------------------------------------------------------------------------
\* fetchWithCache when every network request settles
\* ------------------------------------------------------------------------
\* a request that was started settles: the awaited fetchFunction() or
\* fetch(staticFile) of some call in flight is resumed
SpecSettling ==
    /\ Init
    /\ [][Next]_vars
    /\ WF_vars(\E call \in BagToSet(calls), r \in LiveOutcomes : LiveSettle(call, r))
    /\ WF_vars(\E call \in BagToSet(calls), resp \in StaticResponses : StaticSettle(call, resp))

\* ------------------------------------------------------------------------
\* Reference Resolver and Category Normalizer
\* ------------------------------------------------------------------------
Impls == {"browser", "batch"}

Cats == {"qb", "receivers", "rushers"}

\* what following a reference of a leader entry gives: the reference is
\* absent, the fetch fails, or the fetch resolves
RefOutcomes == {"absent", "fail", "ok"}

\* the leader board served for the pass: entry i points at athlete i with a
\* raw value of so many tenths of a yard
AthleteName(i) == "P" \o ToString(i)

TeamAbbreviation(i) == "BAL"

LeaderValue(i) == 40004 - 1000 * i

NoStats == [n \in {} |-> 0]

\* the statistics block behind a statistics reference, in tenths
SampleStats(c) ==
    CASE c = "qb" ->
            [n \in {"gamesPlayed", "completions", "passingAttempts", "completionPct",
                    "passingTouchdowns", "interceptions", "QBRating"} |->
                CASE n = "gamesPlayed" -> 170
                  [] n = "completions" -> 3160
                  [] n = "passingAttempts" -> 4740
                  [] n = "completionPct" -> 667
                  [] n = "passingTouchdowns" -> 410
                  [] n = "interceptions" -> 40
                  [] OTHER -> 1195]
      [] c = "receivers" ->
            [n \in {"teamGamesPlayed", "receptions", "receivingTargets",
                    "receivingTouchdowns", "longReception", "yardsPerReception",
                    "receivingYardsPerGame"} |->
                CASE n = "teamGamesPlayed" -> 170
                  [] n = "receptions" -> 1270
                  [] n = "receivingTargets" -> 1750
                  [] n = "receivingTouchdowns" -> 170
                  [] n = "longReception" -> 700
                  [] n = "yardsPerReception" -> 134
                  [] OTHER -> 1005]
      [] OTHER ->
            [n \in {"gamesPlayed", "rushingAttempts", "rushingTouchdowns",
                    "longRushing", "yardsPerRushAttempt", "rushingYardsPerGame",
                    "fumblesLost"} |->
                CASE n = "gamesPlayed" -> 160
                  [] n = "rushingAttempts" -> 3450
                  [] n = "rushingTouchdowns" -> 130
                  [] n = "longRushing" -> 720
                  [] n = "yardsPerRushAttempt" -> 58
                  [] n = "rushingYardsPerGame" -> 1253
                  [] OTHER -> 20]

\* Math.round of a non-negative number given in tenths
Round(t) == (t + 5) \div 10

\* Number.prototype.toFixed(1) of a non-negative number given in tenths
ToFixed1(t) == ToString(t \div 10) \o "." \o ToString(t % 10)

\* detailedStats.name without a default: an absent statistic reads as -1.0
Stat_NoDefault(ds, n) == IF n \in DOMAIN ds THEN ds[n] ELSE -10

\* detailedStats.name, undefined reading as 0 under ||
Stat(ds, n) == IF n \in DOMAIN ds THEN ds[n] ELSE 0

\* a || b on numbers
Or(a, b) == IF a # 0 THEN a ELSE b

\* the fallback field names only the batch normalizer knows
BatchAlias(i, ds, n) == IF i = "batch" THEN Stat(ds, n) ELSE 0

\* the record built for a leader entry of category c at rank r
PlayerRecord(i, c, r, name, team, value, ds) ==
    CASE c = "qb" ->
            [rank |-> r, name |-> name, team |-> team,
             games |-> Round(Or(Stat(ds, "gamesPlayed"), Stat(ds, "teamGamesPlayed"))),
             completions |-> Round(Stat(ds, "completions")),
             attempts |-> Round(Stat(ds, "passingAttempts")),
             compPct |-> ToFixed1(Stat(ds, "completionPct")) \o "%",
             yards |-> Round(value),
             tds |-> Round(Stat(ds, "passingTouchdowns")),
             ints |-> Round(Stat(ds, "interceptions")),
             rating |-> ToFixed1(Or(Stat(ds, "quarterbackRating"), Stat(ds, "QBRating")))]
      [] c = "receivers" ->
            [rank |-> r, name |-> name, team |-> team,
             games |-> Round(Or(Stat(ds, "gamesPlayed"), Stat(ds, "teamGamesPlayed"))),
             receptions |-> Round(Stat(ds, "receptions")),
             targets |-> Round(Stat(ds, "receivingTargets")),
             yards |-> Round(value),
             avg |-> ToFixed1(Or(Stat(ds, "yardsPerReception"), BatchAlias(i, ds, "avgYards"))),
             tds |-> Round(Stat(ds, "receivingTouchdowns")),
             long |-> Round(Stat(ds, "longReception")),
             ypg |-> ToFixed1(Or(Stat(ds, "receivingYardsPerGame"),
                                 BatchAlias(i, ds, "yardsPerGame")))]
      [] OTHER ->
            [rank |-> r, name |-> name, team |-> team,
             games |-> Round(Or(Stat(ds, "gamesPlayed"), Stat(ds, "teamGamesPlayed"))),
             attempts |-> Round(Stat(ds, "rushingAttempts")),
             yards |-> Round(value),
             avg |-> ToFixed1(Or(Stat(ds, "yardsPerRushAttempt"), BatchAlias(i, ds, "avgYards"))),
             tds |-> Round(Stat(ds, "rushingTouchdowns")),
             long |-> Round(Stat(ds, "longRushing")),
             ypg |-> ToFixed1(Or(Stat(ds, "rushingYardsPerGame"),
                                 BatchAlias(i, ds, "yardsPerGame"))),
             fumbles |-> Round(Or(Stat(ds, "rushingFumbles"), BatchAlias(i, ds, "fumblesLost")))]

\* teamData?.abbreviation || 'N/A'
TeamOf(l, r) == IF l.team = "ok" THEN TeamAbbreviation(r) ELSE "N/A"

\* the statistics extracted for the entry, empty unless the block was fetched
StatsOf(c, l) == IF l.stats = "ok" THEN SampleStats(c) ELSE NoStats

\* browser side: Promise.all over the three fetches of one entry rejects as
\* soon as one of them rejects; a missing athlete object throws before that
BrowserEntryThrows(l) == l.athlete # "ok" \/ l.team = "fail" \/ l.stats = "fail"

\* browser side: what the promise of entry r resolves with (<<>> is null)
ResolveBrowser(c, l, r) ==
    IF BrowserEntryThrows(l) THEN <<>>
    ELSE <<PlayerRecord("browser", c, r, AthleteName(r), TeamOf(l, r), LeaderValue(r),
                        StatsOf(c, l))>>

\* batch side: the entry is skipped (continue) or its processing throws into
\* catch (leaderError); team and statistics failures are caught on their own
BatchEntryFails(l) == l.athlete # "ok"

\* batch side: the record numbered with the loop index i instead of i + 1
ResolveBatch_ZeroBased(c, l, r) ==
    IF BatchEntryFails(l) THEN <<>>
    ELSE <<PlayerRecord("batch", c, r - 1, AthleteName(r), TeamOf(l, r), LeaderValue(r),
                        StatsOf(c, l))>>

\* batch side: what iteration r pushes onto the bucket
ResolveBatch(c, l, r) ==
    IF BatchEntryFails(l) THEN <<>>
    ELSE <<PlayerRecord("batch", c, r, AthleteName(r), TeamOf(l, r), LeaderValue(r),
                        StatsOf(c, l))>>

\* the batch loop stopping at the first entry that fails
NextIndex_Aborting(r, failed, n) == IF failed THEN n + 1 ELSE r + 1

\* the batch loop goes on to the next leader whether or not this one failed
NextIndex(r, failed, n) == r + 1

RECURSIVE Flatten(_)
\* results.filter(r => r !== null)
Flatten(ss) == IF ss = <<>> THEN <<>> ELSE Head(ss).val \o Flatten(Tail(ss))

\* a promise of the fan-out that settled with a value
Settled(v) == [done |-> TRUE, val |-> v]

\* the results array in the order in which the promises settled
PromiseAll_CompletionOrder(ss, ord) == [k \in 1..Len(ord) |-> ss[ord[k]]]

\* Promise.all(qbPromises): the results array has the order of the promises
\* array, whatever the order ord in which the promises settled
PromiseAll(ss, ord) == ss

\* the pass begins: the batch loop starts at the first leader; the browser
\* side starts the promises of all leaders at once
Begin ==
    /\ rpc = "init"
    /\ rpc' = IF impl = "batch" THEN "loop" ELSE "fanout"
    /\ idx' = 1
    /\ settled' = [i \in 1..Len(leaders) |-> [done |-> FALSE, val |-> <<>>]]
    /\ order' = <<>>
    /\ UNCHANGED <<impl, cat, leaders, bucket>>
    /\ UNCHANGED <<cvars, bvars, pvars, mvars>>

\* batch side: one iteration of the loop over the leaders
BatchStep ==
    /\ rpc = "loop"
    /\ idx <= Len(leaders)
    /\ bucket' = bucket \o ResolveBatch(cat, leaders[idx], idx)
    /\ idx' = NextIndex(idx, BatchEntryFails(leaders[idx]), Len(leaders))
    /\ UNCHANGED <<impl, cat, leaders, rpc, settled, order>>
    /\ UNCHANGED <<cvars, bvars, pvars, mvars>>

\* batch side: the loop is over
BatchEnd ==
    /\ rpc = "loop"
    /\ idx > Len(leaders)
    /\ rpc' = "done"
    /\ UNCHANGED <<impl, cat, leaders, idx, settled, order, bucket>>
    /\ UNCHANGED <<cvars, bvars, pvars, mvars>>

\* browser side: the promise of entry i settles
BrowserSettle(i) ==
    /\ rpc = "fanout"
    /\ ~settled[i].done
    /\ settled' = [settled EXCEPT ![i] = Settled(ResolveBrowser(cat, leaders[i], i))]
    /\ order' = Append(order, i)
    /\ UNCHANGED <<impl, cat, leaders, rpc, idx, bucket>>
    /\ UNCHANGED <<cvars, bvars, pvars, mvars>>

\* browser side: Promise.all over the entries resolves, nulls are filtered
BrowserJoin ==
    /\ rpc = "fanout"
    /\ \A i \in 1..Len(leaders) : settled[i].done
    /\ bucket' = Flatten(PromiseAll(settled, order))
    /\ rpc' = "done"
    /\ UNCHANGED <<impl, cat, leaders, idx, settled, order>>
    /\ UNCHANGED <<cvars, bvars, pvars, mvars>>

InitResolve ==
    /\ InitCache
    /\ InitNoBatch
    /\ InitNoMain
    /\ InitNoPure
    /\ impl \in Impls
    /\ cat \in Cats
    /\ \E n \in 1..MaxLeaders :
          leaders \in [1..n -> [athlete : RefOutcomes, team : RefOutcomes, stats : RefOutcomes]]
    /\ rpc = "init"
    /\ idx = 0
    /\ settled = <<>>
    /\ order = <<>>
    /\ bucket = <<>>

NextResolve ==
    \/ Begin
    \/ BatchStep
    \/ BatchEnd
    \/ \E i \in 1..Len(leaders) : BrowserSettle(i)
    \/ BrowserJoin

SpecResolve == InitResolve /\ [][NextResolve]_vars

\* ------------------------------------------------------------------------
\* Period Calculator
\* ------------------------------------------------------------------------
\* An instant is a number of seconds since 2024-01-01T00:00:00Z; a date is
\* an instant together with the offset in hours of the local time zone of
\* the machine that reads its year and month.
EpochYear == 2024

\* days between the epoch and January 1st of year y
DaysBeforeYear(y) ==
    LET \* the leap days of the years before year z
        LeapDaysBefore(z) == (z - 1) \div 4 - (z - 1) \div 100 + (z - 1) \div 400
    IN  365 * (y - EpochYear) + LeapDaysBefore(y) - LeapDaysBefore(EpochYear)

\* days between January 1st of year y and the first of month m (0 = January)
DaysBeforeMonth(y, m) ==
    LET \* the same for a common year
        CommonYear == <<0, 31, 59, 90, 120, 151, 181, 212, 243, 273, 304, 334>>
        IsLeap == y % 4 = 0 /\ (y % 100 # 0 \/ y % 400 = 0)
    IN  CommonYear[m + 1] + (IF IsLeap /\ m >= 2 THEN 1 ELSE 0)

SecondsPerDay == 24 * 60 * 60

\* new Date(`${y}-${mo}-${d}T${h}:${mi}:${s}${offset}:00`) with mo 1-based
DateOf(y, mo, d, h, mi, s, offset) ==
    (DaysBeforeYear(y) + DaysBeforeMonth(y, mo - 1) + (d - 1)) * SecondsPerDay
        + h * 3600 + mi * 60 + s - offset * 3600

\* the day, counted from the epoch, that the local calendar shows
LocalDay(date) == (date.t + date.tz * 3600) \div SecondsPerDay

\* now.getFullYear()
getFullYear(date) ==
    LET day == LocalDay(date)
        y == EpochYear + day \div 366
    IN  IF day >= DaysBeforeYear(y + 1) THEN y + 1 ELSE y

\* now.getMonth(), 0 = January
getMonth(date) ==
    LET y == getFullYear(date)
        doy == LocalDay(date) - DaysBeforeYear(y)
    IN  Cardinality({m \in 1..11 : DaysBeforeMonth(y, m) <= doy})

\* scripts/fetch-data.js getCurrentNFLSeason
getCurrentNFLSeason(date) ==
    LET currentYear == getFullYear(date)
        currentMonth == getMonth(date)
    IN  IF currentMonth >= 0 /\ currentMonth <= 7 THEN currentYear - 1 ELSE currentYear

\* seasonStart of getCurrentNFLWeek: the batch side derives it from the
\* season, the browser side has the 2024 season written in
seasonStart(i, date) ==
    IF i = "batch" THEN DateOf(getCurrentNFLSeason(date), 9, 4, 0, 0, 0, -4)
    ELSE DateOf(2024, 9, 5, 0, 0, 0, -4)

\* regularSeasonEnd of getCurrentNFLWeek
regularSeasonEnd(i, date) ==
    IF i = "batch" THEN DateOf(getCurrentNFLSeason(date) + 1, 1, 10, 23, 59, 59, -5)
    ELSE DateOf(2025, 1, 5, 23, 59, 59, -5)

\* millisecondsPerWeek, in seconds
secondsPerWeek == 7 * 24 * 60 * 60

\* Math.min(a, b)
Min(a, b) == IF a <= b THEN a ELSE b

\* the week count without the cap at 18
WeekOfSeason_Uncapped(w) == w + 1

\* the week count starting at 0
WeekOfSeason_ZeroBased(w) == Min(w, 18)

\* Math.min(weeksSinceStart + 1, 18)
WeekOfSeason(w) == Min(w + 1, 18)

\* getCurrentNFLWeek of implementation i at the date
getCurrentNFLWeek(i, date) ==
    LET start == seasonStart(i, date)
    IN  IF date.t < start THEN 1
        ELSE IF date.t > regularSeasonEnd(i, date) THEN 18
        ELSE WeekOfSeason((date.t - start) \div secondsPerWeek)

\* the season in the URL of the leaders request: the configured season, or
\* 2024 in the fallback request of the batch side
RequestSeason(i, pass, date) ==
    IF pass = "fallback" THEN 2024
    ELSE IF i = "batch" THEN getCurrentNFLSeason(date) \* API_CONFIG.currentSeason
    ELSE 2024

\* the dates tried: every day from 2024-08-15 to 2026-01-31 at midnight UTC,
\* at the two instants around the start of a season day (00:00 EDT) and
\* around the end of a season day (23:59:59 EST), in three time zones
FirstDay == DaysBeforeYear(2024) + DaysBeforeMonth(2024, 7) + 14

TimesOfDay == {0, 4 * 3600 - 1, 4 * 3600, 5 * 3600 - 1, 5 * 3600}

Answer(kind, i, value) == [kind |-> kind, impl |-> i, value |-> value]

ComputeSeason ==
    /\ pfn = "date"
    /\ pfn' = "done"
    /\ pout' = Answer("season", "batch", getCurrentNFLSeason(parg))
    /\ UNCHANGED parg
    /\ UNCHANGED <<cvars, rvars, bvars, mvars>>

ComputeWeek(i) ==
    /\ pfn = "date"
    /\ pfn' = "done"
    /\ pout' = Answer("week", i, getCurrentNFLWeek(i, parg))
    /\ UNCHANGED parg
    /\ UNCHANGED <<cvars, rvars, bvars, mvars>>

\* a leaders request is built
BuildRequest(i, pass) ==
    /\ pfn = "date"
    /\ pfn' = "done"
    /\ pout' = Answer(pass, i, RequestSeason(i, pass, parg))
    /\ UNCHANGED parg
    /\ UNCHANGED <<cvars, rvars, bvars, mvars>>

InitPeriod ==
    /\ InitCache
    /\ InitNoPass
    /\ InitNoBatch
    /\ InitNoMain
    /\ pfn = "date"
    /\ \E d \in FirstDay..DaysBeforeYear(2026) + 30, s \in TimesOfDay, z \in {-5, 0, 9} :
          parg = [kind |-> "date", t |-> d * SecondsPerDay + s, tz |-> z]
    /\ pout = NoOut

NextPeriod ==
    \/ ComputeSeason
    \/ \E i \in Impls : ComputeWeek(i)
    \/ \E i \in Impls :
          \E pass \in (IF i = "batch" THEN {"current", "fallback"} ELSE {"current"}) :
              BuildRequest(i, pass)

SpecPeriod == InitPeriod /\ [][NextPeriod]_vars

\* ------------------------------------------------------------------------
\* Remote Fetch Adapter
\* ------------------------------------------------------------------------
\* what the network does with the request: the connection fails, nothing
\* arrives before the timeout, or a response with a status and a body that
\* is or is not valid JSON arrives
NetworkOutcomes ==
    {[kind |-> "network", net |-> n, status |-> 0, body |-> "none"] : n \in {"error", "timeout"}}
        \cup {[kind |-> "network", net |-> "response", status |-> st, body |-> b] :
                st \in {100, 199, 200, 201, 202, 203, 204, 206, 299, 300, 301, 304,
                        400, 404, 500, 503},
                b \in {"valid", "invalid"}}

\* resolve / reject: only the first settlement of a promise counts
Settle(p, kind, value) ==
    IF p.kind # "pending" THEN p
    ELSE [p EXCEPT !.kind = kind, !.value = value, !.settled = @ + 1]

\* the status check of the adapter: !response.ok on the browser side,
\* res.statusCode === 200 on the batch side
StatusAccepted(i, status) ==
    IF i = "fetchWithTimeout" THEN status >= 200 /\ status <= 299 \* response.ok
    ELSE status = 200

\* how the adapter settles on what the network does
Settlement(i, p, n) ==
    CASE n.net = "error" -> Settle(p, "failed", 0)
      [] n.net = "timeout" -> Settle(p, "timeout", 0)
      [] n.net = "response" /\ ~StatusAccepted(i, n.status) -> Settle(p, "http", n.status)
      [] n.net = "response" /\ StatusAccepted(i, n.status) /\ n.body = "invalid" ->
            Settle(p, "parse", n.status)
      [] OTHER -> Settle(p, "parsed", n.status)

\* the adapter is called: one request goes out
AdapterCall(i) ==
    /\ pfn = "request"
    /\ pfn' = "issued"
    /\ pout' = [kind |-> "pending", impl |-> i, value |-> 0, requests |-> 1, settled |-> 0]
    /\ UNCHANGED parg
    /\ UNCHANGED <<cvars, rvars, bvars, mvars>>

\* the network answers, fails, or the timeout fires
AdapterSettle ==
    /\ pfn = "issued"
    /\ pfn' = "settled"
    /\ pout' = Settlement(pout.impl, pout, parg)
    /\ UNCHANGED parg
    /\ UNCHANGED <<cvars, rvars, bvars, mvars>>

\* fetchUrl: req.destroy() after the timeout makes the request emit 'error',
\* whose handler rejects the promise once more
AdapterLateError ==
    /\ pfn = "settled"
    /\ pout.impl = "fetchUrl"
    /\ parg.net = "timeout"
    /\ pfn' = "closed"
    /\ pout' = Settle(pout, "failed", 0)
    /\ UNCHANGED parg
    /\ UNCHANGED <<cvars, rvars, bvars, mvars>>

InitAdapter ==
    /\ InitCache
    /\ InitNoPass
    /\ InitNoBatch
    /\ InitNoMain
    /\ pfn = "request"
    /\ parg \in NetworkOutcomes
    /\ pout = NoOut

\* the adapters: fetchWithTimeout of api.js and fetchUrl of
\* scripts/fetch-data.js
NextAdapter ==
    \/ \E i \in {"fetchWithTimeout", "fetchUrl"} : AdapterCall(i)
    \/ AdapterSettle
    \/ AdapterLateError

SpecAdapter == InitAdapter /\ [][NextAdapter]_vars

\* ------------------------------------------------------------------------
\* Category Normalizer
\* ------------------------------------------------------------------------
\* the statistics each normalizer reads for a category
NamesRead(i, c) ==
    CASE c = "qb" ->
            {"gamesPlayed", "completions", "passingAttempts", "completionPct",
             "passingTouchdowns", "interceptions", "quarterbackRating", "QBRating"}
                \cup (IF i = "legacy" THEN {"passingYards"} ELSE {"teamGamesPlayed"})
      [] c = "receivers" ->
            {"gamesPlayed", "receptions", "receivingTargets", "yardsPerReception",
             "receivingTouchdowns", "longReception"}
                \cup (CASE i = "legacy" -> {"receivingYards", "avgYards", "yardsPerGame"}
                        [] i = "batch" -> {"teamGamesPlayed", "receivingYardsPerGame",
                                           "avgYards", "yardsPerGame"}
                        [] OTHER -> {"teamGamesPlayed", "receivingYardsPerGame"})
      [] OTHER ->
            {"gamesPlayed", "rushingAttempts", "yardsPerRushAttempt", "rushingTouchdowns",
             "longRushing"}
                \cup (CASE i = "legacy" -> {"rushingYards", "avgYards", "yardsPerGame",
                                            "fumblesLost"}
                        [] i = "batch" -> {"teamGamesPlayed", "rushingYardsPerGame",
                                           "rushingFumbles", "avgYards", "yardsPerGame",
                                           "fumblesLost"}
                        [] OTHER -> {"teamGamesPlayed", "rushingYardsPerGame",
                                     "rushingFumbles"})

\* the value a statistic has when the source carries it, in tenths
StatValue(n) ==
    CASE n = "gamesPlayed" -> 160
      [] n = "teamGamesPlayed" -> 170
      [] n = "completions" -> 3160
      [] n = "passingAttempts" -> 4740
      [] n = "completionPct" -> 667
      [] n = "passingYards" -> 41720
      [] n = "passingTouchdowns" -> 410
      [] n = "interceptions" -> 40
      [] n = "quarterbackRating" -> 1012
      [] n = "QBRating" -> 1195
      [] n = "receptions" -> 1270
      [] n = "receivingTargets" -> 1750
      [] n = "receivingYards" -> 17080
      [] n = "yardsPerReception" -> 134
      [] n = "avgYards" -> 99
      [] n = "receivingTouchdowns" -> 170
      [] n = "longReception" -> 700
      [] n = "receivingYardsPerGame" -> 1005
      [] n = "yardsPerGame" -> 888
      [] n = "rushingAttempts" -> 3450
      [] n = "rushingYards" -> 20050
      [] n = "yardsPerRushAttempt" -> 58
      [] n = "rushingTouchdowns" -> 130
      [] n = "longRushing" -> 720
      [] n = "rushingYardsPerGame" -> 1253
      [] n = "rushingFumbles" -> 10
      [] OTHER -> 20

\* athleteData.displayName || athleteData.fullName || 'Unknown'
athleteName(a) ==
    CASE a = "displayName" -> "Lamar Jackson"
      [] a = "fullName" -> "Lamar D. Jackson"
      [] OTHER -> "Unknown"

\* parseInt of a non-negative number given in tenths
ParseInt(t) == t \div 10

\* the older transform functions: rank and team come with the leader entry,
\* every other field from its statistics
LegacyRecord(c, r, name, team, ds) ==
    CASE c = "qb" ->
            [rank |-> r, name |-> name, team |-> team,
             games |-> ParseInt(Stat(ds, "gamesPlayed")),
             completions |-> ParseInt(Stat(ds, "completions")),
             attempts |-> ParseInt(Stat(ds, "passingAttempts")),
             compPct |-> IF Stat(ds, "completionPct") # 0
                         THEN ToFixed1(Stat(ds, "completionPct")) \o "%" ELSE "0.0%",
             yards |-> ParseInt(Stat(ds, "passingYards")),
             tds |-> ParseInt(Stat(ds, "passingTouchdowns")),
             ints |-> ParseInt(Stat(ds, "interceptions")),
             rating |-> ToFixed1(Or(Stat(ds, "quarterbackRating"), Stat(ds, "QBRating")))]
      [] c = "receivers" ->
            [rank |-> r, name |-> name, team |-> team,
             games |-> ParseInt(Stat(ds, "gamesPlayed")),
             receptions |-> ParseInt(Stat(ds, "receptions")),
             targets |-> ParseInt(Stat(ds, "receivingTargets")),
             yards |-> ParseInt(Stat(ds, "receivingYards")),
             avg |-> ToFixed1(Or(Stat(ds, "yardsPerReception"), Stat(ds, "avgYards"))),
             tds |-> ParseInt(Stat(ds, "receivingTouchdowns")),
             long |-> ParseInt(Stat(ds, "longReception")),
             ypg |-> ToFixed1(Stat(ds, "yardsPerGame"))]
      [] OTHER ->
            [rank |-> r, name |-> name, team |-> team,
             games |-> ParseInt(Stat(ds, "gamesPlayed")),
             attempts |-> ParseInt(Stat(ds, "rushingAttempts")),
             yards |-> ParseInt(Stat(ds, "rushingYards")),
             avg |-> ToFixed1(Or(Stat(ds, "yardsPerRushAttempt"), Stat(ds, "avgYards"))),
             tds |-> ParseInt(Stat(ds, "rushingTouchdowns")),
             long |-> ParseInt(Stat(ds, "longRushing")),
             ypg |-> ToFixed1(Stat(ds, "yardsPerGame")),
             fumbles |-> ParseInt(Stat(ds, "fumblesLost"))]

\* the input of a normalizer: the statistics named in present, each with
\* its value or, when v.zeros is set and the name is one looked up first,
\* before any other name of the same field, with 0
NormalizerInput(i, c, present, v) ==
    LET exact == {"gamesPlayed", "quarterbackRating", "yardsPerReception",
                  "receivingYardsPerGame", "yardsPerRushAttempt", "rushingYardsPerGame",
                  "rushingFumbles"}
    IN  [kind |-> "stats", impl |-> i, cat |-> c, athlete |-> v.athlete,
         stats |-> [n \in present |-> IF v.zeros /\ n \in exact THEN 0 ELSE StatValue(n)]]

\* the record the normalizer parg.impl builds for category parg.cat
Normalize ==
    /\ pfn = "stats"
    /\ pfn' = "normalized"
    /\ pout' =
          LET name == athleteName(parg.athlete)
              \* teamData?.abbreviation || 'N/A'
              team == IF parg.athlete = "neither" THEN "N/A" ELSE "BAL"
              \* leader.value || 0, in tenths
              value == IF parg.athlete = "neither" THEN 0 ELSE 40004
          IN  IF parg.impl = "legacy" THEN LegacyRecord(parg.cat, 1, name, team, parg.stats)
              ELSE PlayerRecord(parg.impl, parg.cat, 1, name, team, value, parg.stats)
    /\ UNCHANGED parg
    /\ UNCHANGED <<cvars, rvars, bvars, mvars>>

\* ------------------------------------------------------------------------
\* Source category matching
\* ------------------------------------------------------------------------
\* batch side: targetKey of a category of the leaders response
targetKey(name) ==
    CASE name = "passingYards" \/ name = "passing" -> "qb"
      [] name = "receivingYards" \/ name = "receiving" -> "receivers"
      [] name = "rushingYards" \/ name = "rushing" -> "rushers"
      [] OTHER -> "null"

\* the buckets a category with this name can contribute to; browser side,
\* the category is one that categories.find() of the fetch function of
\* bucket k accepts
TargetKeys(i, name, displayName) ==
    LET Finds(k) ==
            CASE k = "qb" -> name = "passingYards" \/ displayName = "Passing Yards"
              [] k = "receivers" ->
                    name = "receivingYards" \/ displayName = "Receiving Yards"
              [] OTHER -> name = "rushingYards" \/ displayName = "Rushing Yards"
    IN  IF i = "batch" THEN {k \in Cats : targetKey(name) = k}
        ELSE {k \in Cats : Finds(k)}

MatchCategory ==
    /\ pfn = "category"
    /\ pfn' = "matched"
    /\ pout' = [kind |-> "keys", value |-> TargetKeys(parg.impl, parg.name, parg.displayName)]
    /\ UNCHANGED parg
    /\ UNCHANGED <<cvars, rvars, bvars, mvars>>

InitNormalize ==
    /\ InitCache
    /\ InitNoPass
    /\ InitNoBatch
    /\ InitNoMain
    /\ pfn = "stats"
    \* the normalizers: the browser-side resolvers, the batch fetchPlayerStats
    \* and the categories[].transform functions of the older fetchPlayerStats;
    \* the inputs tried: every subset of the statistics the normalizer reads;
    \* the athlete with a display name, a full name only, or neither, the last
    \* one with no raw value and no team
    /\ \E i \in {"browser", "batch", "legacy"}, c \in Cats,
          v \in {[athlete |-> "displayName", zeros |-> FALSE],
                 [athlete |-> "displayName", zeros |-> TRUE],
                 [athlete |-> "fullName", zeros |-> TRUE],
                 [athlete |-> "neither", zeros |-> FALSE]} :
          \E present \in SUBSET NamesRead(i, c) : parg = NormalizerInput(i, c, present, v)
    /\ pout = NoOut

NextNormalize == Normalize

InitMatch ==
    /\ InitCache
    /\ InitNoPass
    /\ InitNoBatch
    /\ InitNoMain
    /\ pfn = "category"
    \* the fetch implementations that match leader-board categories by name,
    \* with the names and display names a category can carry
    /\ \E i \in {"browser", "batch"},
          n \in {"passingYards", "passing", "receivingYards", "receiving", "rushingYards",
                 "rushing", "sacks"},
          dn \in {"Passing Yards", "Receiving Yards", "Rushing Yards", "Sacks"} :
          parg = [kind |-> "category", impl |-> i, name |-> n, displayName |-> dn]
    /\ pout = NoOut

NextMatch == MatchCategory

SpecMatch == InitMatch /\ [][NextMatch]_vars

SpecNormalize == InitNormalize /\ [][NextNormalize]_vars

\* ------------------------------------------------------------------------
\* The batch fetchPlayerStats
\* ------------------------------------------------------------------------
\* the leader entries served: every reference resolves, or the athlete
\* fetch fails
AllResolve == [athlete |-> "ok", team |-> "ok", stats |-> "ok"]

LeaderLists ==
    UNION {[1..n -> {AllResolve, [athlete |-> "fail", team |-> "ok", stats |-> "ok"]}] :
              n \in 0..MaxLeaders}

ServedNames == {"passingYards", "passing", "receivingYards", "rushing", "sacks"}

\* an element of data.categories: null, an object without a leaders array,
\* or an object with name and leaders
CategoryValues ==
    {[shape |-> "null", name |-> "none", leaders |-> <<>>]}
        \cup {[shape |-> "noLeaders", name |-> n, leaders |-> <<>>] : n \in ServedNames}
        \cup {[shape |-> "object", name |-> n, leaders |-> ls] :
                n \in ServedNames, ls \in LeaderLists}

\* what a leaders request gives: fetchUrl rejects, the body has no
\* categories array, or it has one
Rejected == [kind |-> "rejected", categories |-> <<>>]

Invalid == [kind |-> "invalid", categories |-> <<>>]

Categories(cs) == [kind |-> "categories", categories |-> cs]

LeadersResponses ==
    {Rejected, Invalid, Categories(<<>>)}
        \cup {Categories(<<c>>) : c \in CategoryValues}
        \cup {Categories(<<c, d>>) : c \in CategoryValues, d \in CategoryValues}

\* the number of leaders processed: slice(0, 15), and i < 10 in the
\* fallback pass
LeaderLimit(pass, n) == IF pass = "fallback" THEN Min(Min(n, 15), 10) ELSE Min(n, 15)

RECURSIVE CategoryRecords(_, _, _)
\* what the loop over the first n leaders pushes onto the bucket
CategoryRecords(c, ls, n) ==
    IF n = 0 THEN <<>> ELSE CategoryRecords(c, ls, n - 1) \o ResolveBatch(c, ls[n], n)

\* an error in the processing of a leader leaving the loop over the leaders
LeaderErrorEscapes_Uncaught(category) ==
    \E i \in 1..Len(category.leaders) : BatchEntryFails(category.leaders[i])

\* catch (leaderError): no error of a leader leaves the loop
LeaderErrorEscapes(category) == FALSE

\* one iteration of the loop over data.categories: it throws (category.name
\* of null), skips the category, or appends to the bucket of its key
ProcessCategory(stats, category, pass) ==
    IF category.shape = "null" \/ LeaderErrorEscapes(category)
    THEN [threw |-> TRUE, stats |-> stats]
    ELSE IF targetKey(category.name) = "null" \/ category.shape = "noLeaders"
    THEN [threw |-> FALSE, stats |-> stats]
    ELSE [threw |-> FALSE,
          stats |-> [stats EXCEPT ![targetKey(category.name)] =
                        @ \o CategoryRecords(targetKey(category.name), category.leaders,
                                             LeaderLimit(pass, Len(category.leaders)))]]

\* an error of the fallback pass leaving fetchPlayerStats
FallbackCatch_Rethrown == "threw"

\* catch (fallbackError): the error is logged and the buckets are returned
FallbackCatch == "returned"

RequestLeaders ==
    /\ bimpl = "batch"
    /\ bpc = "start"
    /\ bpc' = "await"
    /\ requests' = <<"current">>
    /\ UNCHANGED <<bimpl, data, fallbackData, ci, playerStats, saved>>
    /\ UNCHANGED <<cvars, rvars, pvars, mvars>>

\* the current-season leaders request settles
LeadersSettle(resp) ==
    /\ bpc = "await"
    /\ data' = resp
    /\ IF resp.kind = "categories" THEN bpc' = "primary" /\ ci' = 1
       ELSE bpc' = "catch" /\ ci' = ci
    /\ UNCHANGED <<bimpl, fallbackData, playerStats, requests, saved>>
    /\ UNCHANGED <<cvars, rvars, pvars, mvars>>

ProcessPrimary ==
    /\ bpc = "primary"
    /\ ci <= Len(data.categories)
    /\ LET r == ProcessCategory(playerStats, data.categories[ci], "current")
       IN  /\ playerStats' = r.stats
           /\ IF r.threw THEN bpc' = "catch" /\ ci' = ci
              ELSE bpc' = bpc /\ ci' = ci + 1
    /\ UNCHANGED <<bimpl, data, fallbackData, requests, saved>>
    /\ UNCHANGED <<cvars, rvars, pvars, mvars>>

PrimaryDone ==
    /\ bpc = "primary"
    /\ ci > Len(data.categories)
    /\ bpc' = "returned"
    /\ UNCHANGED <<bimpl, data, fallbackData, ci, playerStats, requests, saved>>
    /\ UNCHANGED <<cvars, rvars, pvars, mvars>>

\* catch (error): the leaders of season 2024 are requested
RequestFallback ==
    /\ bpc = "catch"
    /\ bpc' = "fallbackAwait"
    /\ requests' = Append(requests, "2024")
    /\ UNCHANGED <<bimpl, data, fallbackData, ci, playerStats, saved>>
    /\ UNCHANGED <<cvars, rvars, pvars, mvars>>

FallbackSettle(resp) ==
    /\ bpc = "fallbackAwait"
    /\ fallbackData' = resp
    /\ CASE resp.kind = "categories" -> bpc' = "fallback" /\ ci' = 1
         [] resp.kind = "invalid" -> bpc' = "returned" /\ ci' = ci
         [] OTHER -> bpc' = FallbackCatch /\ ci' = ci
    /\ UNCHANGED <<bimpl, data, playerStats, requests, saved>>
    /\ UNCHANGED <<cvars, rvars, pvars, mvars>>

ProcessFallback ==
    /\ bpc = "fallback"
    /\ ci <= Len(fallbackData.categories)
    /\ LET r == ProcessCategory(playerStats, fallbackData.categories[ci], "fallback")
       IN  /\ playerStats' = r.stats
           /\ IF r.threw THEN bpc' = FallbackCatch /\ ci' = ci
              ELSE bpc' = bpc /\ ci' = ci + 1
    /\ UNCHANGED <<bimpl, data, fallbackData, requests, saved>>
    /\ UNCHANGED <<cvars, rvars, pvars, mvars>>

FallbackDone ==
    /\ bpc = "fallback"
    /\ ci > Len(fallbackData.categories)
    /\ bpc' = "returned"
    /\ UNCHANGED <<bimpl, data, fallbackData, ci, playerStats, requests, saved>>
    /\ UNCHANGED <<cvars, rvars, pvars, mvars>>

\* main: saveToFile('player-stats.json', playerStats)
SavePlayerStats ==
    /\ bpc = "returned"
    /\ bpc' = "saved"
    /\ saved' = [written |-> TRUE, content |-> playerStats]
    /\ UNCHANGED <<bimpl, data, fallbackData, ci, playerStats, requests>>
    /\ UNCHANGED <<cvars, rvars, pvars, mvars>>

\* the older fetchPlayerStats: the categories it asks for, in order
LegacyKeys == <<"qb", "receivers", "rushers">>

RECURSIVE LegacyPlayers(_, _, _)
\* players after the loop over the first n entries of data.leaders
LegacyPlayers(k, ls, n) ==
    IF n = 0 THEN <<>>
    ELSE LegacyPlayers(k, ls, n - 1)
            \o (IF ls[n].athlete # "ok" THEN <<>>
                ELSE <<LegacyRecord(k, n, AthleteName(n), TeamOf(ls[n], n), StatsOf(k, ls[n]))>>)

\* playerStats[category.key] after the request of the category settled
LegacyBucket(k, resp) ==
    IF resp.kind = "rejected" THEN <<>>
    ELSE LegacyPlayers(k, resp.categories[1].leaders,
                       Min(Len(resp.categories[1].leaders), 15))

\* one iteration of the loop over the categories of the older
\* fetchPlayerStats: request, transform, store the bucket
LegacyCategory(resp) ==
    /\ bimpl = "legacy"
    /\ bpc = "start"
    /\ ci <= Len(LegacyKeys)
    /\ requests' = Append(requests,
                           CASE LegacyKeys[ci] = "qb" -> "passing"
                             [] LegacyKeys[ci] = "receivers" -> "receiving"
                             [] OTHER -> "rushing")
    /\ data' = [data EXCEPT !.categories = Append(@, resp)]
    /\ playerStats' = [k \in DOMAIN playerStats \cup {LegacyKeys[ci]} |->
                          IF k = LegacyKeys[ci] THEN LegacyBucket(k, resp)
                          ELSE playerStats[k]]
    /\ ci' = ci + 1
    /\ UNCHANGED <<bimpl, bpc, fallbackData, saved>>
    /\ UNCHANGED <<cvars, rvars, pvars, mvars>>

LegacyDone ==
    /\ bimpl = "legacy"
    /\ bpc = "start"
    /\ ci > Len(LegacyKeys)
    /\ bpc' = "returned"
    /\ UNCHANGED <<bimpl, data, fallbackData, ci, playerStats, requests, saved>>
    /\ UNCHANGED <<cvars, rvars, pvars, mvars>>

InitBatch ==
    /\ InitCache
    /\ InitNoPass
    /\ InitNoPure
    /\ InitNoMain
    \* the fetchPlayerStats of scripts/fetch-data.js and the older one that
    \* asks for each category on its own
    /\ bimpl \in {"batch", "legacy"}
    /\ bpc = "start"
    /\ data = IF bimpl = "legacy" THEN [kind |-> "legacy", categories |-> <<>>] ELSE NoData
    /\ fallbackData = NoData
    /\ ci = 1
    /\ playerStats = IF bimpl = "legacy" THEN [k \in {} |-> <<>>] ELSE NoBuckets
    /\ requests = <<>>
    /\ saved = NotSaved

NextBatch ==
    \/ RequestLeaders
    \/ \E resp \in LeadersResponses : LeadersSettle(resp)
    \/ ProcessPrimary
    \/ PrimaryDone
    \/ RequestFallback
    \/ \E resp \in {Rejected, Invalid, Categories(<<>>)}
                        \cup {Categories(<<c>>) : c \in CategoryValues} :
          FallbackSettle(resp)
    \/ ProcessFallback
    \/ FallbackDone
    \/ SavePlayerStats
    \* what a category request of the older fetchPlayerStats gives: fetchUrl
    \* rejects, or data.leaders with the athletes inline (an entry whose
    \* athlete is missing is passed over)
    \/ \E resp \in {Rejected}
                        \cup {Categories(<<[shape |-> "object", name |-> "leaders",
                                            leaders |-> ls]>>) : ls \in LeaderLists} :
          LegacyCategory(resp)
    \/ LegacyDone

SpecBatch == InitBatch /\ [][NextBatch]_vars

\* ------------------------------------------------------------------------
\* NFLAPI.clearCache
\* ------------------------------------------------------------------------
\* the keys of localStorage: those of the getters in use (with the schedule
\* getter called for week 1 of 2024) and one that belongs to the page
StorageKeys == Keys \cup {"schedule_1_2024", "theme"}

\* the words a key is made of
KeyWords(k) ==
    CASE k = "schedule_1_2024" -> <<"schedule", "1", "2024">>
      [] k = "team_stats" -> <<"team", "stats">>
      [] k = "qb_stats" -> <<"qb", "stats">>
      [] k = "receiver_stats" -> <<"receiver", "stats">>
      [] k = "rushing_stats" -> <<"rushing", "stats">>
      [] OTHER -> <<k>>

\* key.includes(word)
includes(k, word) == \E i \in 1..Len(KeyWords(k)) : KeyWords(k)[i] = word

\* the test of clearCache looking for 'stats' only
Removes_StatsOnly(k) == includes(k, "stats")

\* key.includes('schedule') || key.includes('stats')
Removes(k) == includes(k, "schedule") \/ includes(k, "stats")

ClearCache ==
    /\ cache' = [k \in DOMAIN cache |-> IF Removes(k) THEN NoEntry ELSE cache[k]]
    /\ UNCHANGED <<now, calls, ret>>
    /\ UNCHANGED <<rvars, bvars, pvars, mvars>>

\* localStorage as earlier getter calls may have left it: any of the getter
\* keys holds a live entry, and the page's own key is set
InitClear ==
    /\ InitNoPass
    /\ InitNoBatch
    /\ InitNoMain
    /\ InitNoPure
    /\ now = 0
    /\ \E filled \in SUBSET (StorageKeys \ {"theme"}) :
          cache = [k \in StorageKeys |->
                      IF k \in filled \cup {"theme"}
                      THEN [present |-> TRUE, data |-> JArr(<<"live">>), timestamp |-> 0]
                      ELSE NoEntry]
    /\ calls = EmptyBag
    /\ ret = NoReturn

NextClear ==
    \/ ClearCache
    \/ \E k \in StorageKeys \ {"theme"} : Start(k)
    \/ \E call \in BagToSet(calls), r \in LiveOutcomes : LiveSettle(call, r)
    \/ \E call \in BagToSet(calls), resp \in StaticResponses : StaticSettle(call, resp)

SpecClear == InitClear /\ [][NextClear]_vars

\* ------------------------------------------------------------------------
\* The browser-side fetchTeamStats
\* ------------------------------------------------------------------------
\* parseFloat(winPct) in thousandths, winPct being
\* total > 0 ? (wins / total).toFixed(3) : '.000'
winPct(wins, losses, ties) ==
    LET total == wins + losses + ties
    IN  IF total > 0 THEN (2000 * wins + total) \div (2 * total) ELSE 0

\* what the promise of team teamId resolves with (<<>> is null)
TeamPromise(teamId, resp) ==
    IF ~resp.ok THEN <<>>
    ELSE <<[rank |-> 0, team |-> teamId, wins |-> resp.wins, losses |-> resp.losses,
            ties |-> resp.ties, winPct |-> winPct(resp.wins, resp.losses, resp.ties)]>>

RECURSIVE sortByWinPct(_)
\* allTeams.sort((a, b) => parseFloat(b.winPct) - parseFloat(a.winPct)):
\* a stable sort, teams of equal percentage keep their order
sortByWinPct(ts) ==
    IF ts = <<>> THEN <<>>
    ELSE LET sorted == sortByWinPct(SubSeq(ts, 1, Len(ts) - 1))
             x == ts[Len(ts)]
             n == Cardinality({j \in 1..Len(sorted) : sorted[j].winPct >= x.winPct})
         IN  SubSeq(sorted, 1, n) \o <<x>> \o SubSeq(sorted, n + 1, Len(sorted))

\* the ranks assigned in the order of the requests, before the sort
fetchTeamStats_RankedBeforeSort(resps) ==
    LET results == [i \in 1..Len(resps) |-> Settled(TeamPromise(i, resps[i]))]
        allTeams == Flatten(results)
    IN  sortByWinPct([i \in 1..Len(allTeams) |-> [allTeams[i] EXCEPT !.rank = i]])

\* fetchTeamStats: the nulls are filtered out, the teams sorted, the ranks
\* assigned by position
fetchTeamStats(resps) ==
    LET results == [i \in 1..Len(resps) |-> Settled(TeamPromise(i, resps[i]))]
        allTeams == sortByWinPct(Flatten(results))
    IN  [i \in 1..Len(allTeams) |-> [allTeams[i] EXCEPT !.rank = i]]

TeamStatsReturn ==
    /\ pfn = "fetchTeamStats"
    /\ pout = NoOut
    /\ pout' = [kind |-> "teams", value |-> fetchTeamStats(parg.value)]
    /\ UNCHANGED <<pfn, parg>>
    /\ UNCHANGED <<cvars, rvars, bvars, mvars>>

InitTeamStats ==
    /\ InitCache
    /\ InitNoPass
    /\ InitNoBatch
    /\ InitNoMain
    /\ pfn = "fetchTeamStats"
    \* what the request for one team gives: it fails (or the body has no
    \* team), or the record of the team with its wins, losses and ties
    /\ \E resps \in [1..MaxTeams ->
                        {[ok |-> FALSE, wins |-> 0, losses |-> 0, ties |-> 0]}
                            \cup {[ok |-> TRUE, wins |-> w, losses |-> l, ties |-> 0] :
                                    w \in 0..2, l \in 0..2}] :
          parg = [kind |-> "responses", value |-> resps]
    /\ pout = NoOut

NextTeamStats == TeamStatsReturn

SpecTeamStats == InitTeamStats /\ [][NextTeamStats]_vars

\* ------------------------------------------------------------------------
\* main of the batch script
\* ------------------------------------------------------------------------
\* the fetch steps in the order main awaits them
FetchSteps == <<"schedule", "standings", "teamStats", "playerStats", "odds">>

\* the calls of saveToFile with the metadata saved before the data
SaveCalls_MetadataFirst ==
    <<[name |-> "metadata.json", data |-> "metadata"],
      [name |-> "schedule.json", data |-> "schedule"],
      [name |-> "standings.json", data |-> "standings"],
      [name |-> "team-stats.json", data |-> "teamStats"],
      [name |-> "player-stats.json", data |-> "playerStats"],
      [name |-> "odds.json", data |-> "odds"]>>

\* the calls of saveToFile in the order main makes them: the file and the
\* variable it is given
SaveCalls ==
    <<[name |-> "schedule.json", data |-> "schedule"],
      [name |-> "standings.json", data |-> "standings"],
      [name |-> "team-stats.json", data |-> "teamStats"],
      [name |-> "player-stats.json", data |-> "playerStats"],
      [name |-> "odds.json", data |-> "odds"],
      [name |-> "metadata.json", data |-> "metadata"]>>

\* what a fetch step can return; none of them throws: a list of games, one
\* list of teams per division, a list of teams, the three buckets, and for
\* the odds null (no key, or the request failed) or a list
FetchResults(step) ==
    LET Lists == {[i \in 1..n |-> "record"] : n \in 0..MaxRecords}
        \* the keys of the divisions object of fetchStandings
        divisions == {"afc-east", "afc-north", "afc-south", "afc-west",
                      "nfc-east", "nfc-north", "nfc-south", "nfc-west"}
    IN  CASE step = "schedule" -> {[games |-> l] : l \in Lists}
          [] step = "standings" -> {[d \in divisions |-> l] : l \in Lists}
          [] step = "teamStats" -> {[teams |-> l] : l \in Lists}
          [] step = "playerStats" -> [Cats -> Lists]
          [] OTHER -> {[null |-> <<>>]} \cup {[odds |-> l] : l \in Lists}

\* if (odds)
OddsGiven(res) == "odds" \in DOMAIN res["odds"]

\* the recordCount member of the metadata
recordCount(res) ==
    [schedule |-> Len(res["schedule"].games),
     standings |-> Cardinality(DOMAIN res["standings"]),
     teamStats |-> Len(res["teamStats"].teams),
     qb |-> Len(res["playerStats"]["qb"]),
     receivers |-> Len(res["playerStats"]["receivers"]),
     rushers |-> Len(res["playerStats"]["rushers"]),
     odds |-> IF OddsGiven(res) THEN Len(res["odds"].odds) ELSE 0]

\* const x = await fetchX(): the next fetch step returns v
MainFetch(v) ==
    /\ mpc \in 1..Len(FetchSteps)
    /\ v \in FetchResults(FetchSteps[mpc])
    /\ fetched' = [s \in DOMAIN fetched \cup {FetchSteps[mpc]} |->
                      IF s = FetchSteps[mpc] THEN v ELSE fetched[s]]
    /\ mpc' = mpc + 1
    /\ UNCHANGED <<files, writes>>
    /\ UNCHANGED <<cvars, rvars, bvars, pvars>>

\* the next call of saveToFile is passed over: if (odds) with odds null
SavePassedOver(call, res) == call.name = "odds.json" /\ ~OddsGiven(res)

\* the next saveToFile: the file is replaced by the data of this run
MainSave ==
    /\ mpc \in Len(FetchSteps) + 1..Len(FetchSteps) + Len(SaveCalls)
    /\ LET call == SaveCalls[mpc - Len(FetchSteps)]
       IN  IF SavePassedOver(call, fetched)
           THEN UNCHANGED <<files, writes>>
           ELSE /\ files' = [files EXCEPT ![call.name] =
                                [present |-> TRUE, run |-> 1,
                                 data |-> IF call.data = "metadata" THEN recordCount(fetched)
                                          ELSE fetched[call.data]]]
                /\ writes' = Append(writes, call.name)
    /\ mpc' = mpc + 1
    /\ UNCHANGED fetched
    /\ UNCHANGED <<cvars, rvars, bvars, pvars>>

\* writeFileSync throws: catch (error) and process.exit(1)
MainSaveFails ==
    /\ mpc \in Len(FetchSteps) + 1..Len(FetchSteps) + Len(SaveCalls)
    /\ ~SavePassedOver(SaveCalls[mpc - Len(FetchSteps)], fetched)
    /\ mpc' = -1
    /\ UNCHANGED <<fetched, files, writes>>
    /\ UNCHANGED <<cvars, rvars, bvars, pvars>>

\* the data directory as earlier runs may have left it: empty, or holding
\* every file, or every file but the odds
InitMain ==
    /\ InitCache
    /\ InitNoPass
    /\ InitNoBatch
    /\ InitNoPure
    /\ mpc = 1
    /\ fetched = [s \in {} |-> <<>>]
    /\ LET names == {SaveCalls[j].name : j \in 1..Len(SaveCalls)}
       IN  \E old \in {{}, names \ {"odds.json"}, names} :
              files = [f \in names |->
                          IF f \in old
                          THEN [present |-> TRUE, run |-> 0, data |-> [old |-> <<>>]]
                          ELSE NoFile]
    /\ writes = <<>>

NextMain ==
    \/ \E step \in 1..Len(FetchSteps) : \E v \in FetchResults(FetchSteps[step]) : MainFetch(v)
    \/ MainSave
    \/ MainSaveFails

SpecMain == InitMain /\ [][NextMain]_vars

\* ------------------------------------------------------------------------
\* Steps of the orchestrator as seen from outside
\* ------------------------------------------------------------------------
\* a call returned in this step
Returned == ret' # ret

\* a call with key k invoked its live fetch in this step
NewLive(k) ==
    CopiesIn(InFlight("live", k, JUndefined, <<"live">>), calls')
        > CopiesIn(InFlight("live", k, JUndefined, <<"live">>), calls)

\* a call with key k returned the cached data in this step
HitReturn(k) == Returned /\ ret'.how = "cache" /\ ret'.key = k

\* the archival response gives no usable data for key k: read failure,
\* non-OK status, unparsable body, extract function throwing (null payload),
\* or empty data after extraction
ArchivalUnusable(k, resp) ==
    \/ resp.fetch = "reject"
    \/ ~resp.ok
    \/ resp.body.kind \in {"unparsable", "null"}
    \/ resp.body = EmptyList
    \/ resp.body.sub[ExtractField(k)] = "empty"

LiveEmptyOrThrew(r) == r.kind = "throw" \/ r = EmptyList

\* ------------------------------------------------------------------------
\* C1: fetchWithCache never throws: every returned call returned a value
\* (an array or an object), and when the live fetch threw or was empty and
\* the archival source is absent, failed or empty, the value is the empty
\* list.
\* ------------------------------------------------------------------------
NeverThrows ==
    ret.how # "none" =>
        /\ ret.result.kind \in {"array", "object"}
        /\ (/\ ret.how # "cache"
            /\ LiveEmptyOrThrew(ret.liveRes)
            /\ (~HasStatic(ret.key) \/ ArchivalUnusable(ret.key, ret.staticRes)))
           => ret.result = EmptyList

\* the live fetch threw and the extract function threw on a null payload
NeverThrowsWitness ==
    /\ ret.how = "empty"
    /\ ret.liveRes.kind = "throw"
    /\ ret.staticRes.ok
    /\ ret.staticRes.body.kind = "null"
    /\ ret.result = EmptyList

\* ------------------------------------------------------------------------
\* C2: after a cache miss, a live fetch that throws and an archival read
\* that yields non-empty data, the call returns the extracted archival data
\* and the cache holds that data under the key, stamped with the time of
\* the return.
\* ------------------------------------------------------------------------
ArchivalReturnedAndCached ==
    [][(/\ Returned
        /\ ret'.liveRes.kind = "throw"
        /\ HasStatic(ret'.key)
        /\ ~ArchivalUnusable(ret'.key, ret'.staticRes))
       => /\ ret'.result = ExtractFn(ExtractField(ret'.key), ret'.staticRes.body)
          /\ cache'[ret'.key] =
                [present |-> TRUE, data |-> ret'.result, timestamp |-> now]
          /\ now' = now]_vars

ArchivalReturnedAndCachedWitness ==
    /\ ret.how = "static"
    /\ ret.liveRes.kind = "throw"
    /\ ret.result = JArr(<<"qb">>)
    /\ cache[ret.key] = [present |-> TRUE, data |-> ret.result, timestamp |-> ret.t]
    /\ ret.t > 0

\* ------------------------------------------------------------------------
\* C3 as stated: within the cache window after a returned call with key k,
\* whatever its outcome, no call with key k invokes the live fetch.
\* ------------------------------------------------------------------------
SecondCallNoNetworkAnyOutcome ==
    [][\A k \in Keys : Prior(k) # "none" => ~NewLive(k)]_vars

\* C3 amended: within the cache window after a returned call with key k that
\* stored its result in the cache (a live result or non-empty archival
\* data), a call with key k returns from the cache and invokes no live
\* fetch (and so no archival read).
SecondCallNoNetwork ==
    [][\A k \in Keys : Prior(k) \in {"live", "static"} =>
            /\ ~NewLive(k)
            /\ HitReturn(k) => ret'.log = <<>> /\ ret'.result = ret.result]_vars

\* a second call returned from the cache at the very end of the window
SecondCallNoNetworkWitness ==
    /\ ret.how = "cache"
    /\ ret.prior \in {"live", "static"}
    /\ ret.log = <<>>
    /\ ret.t - cache[ret.key].timestamp = CACHE_DURATION

\* ------------------------------------------------------------------------
\* C4: when a non-expired entry exists for the key, a call with that key
\* returns the entry's data, invokes no live fetch, and leaves the cache
\* alone.
\* ------------------------------------------------------------------------
ValidEntry(k) == cache[k].present /\ now - cache[k].timestamp <= CACHE_DURATION

CacheHitNoNetwork ==
    [][\A k \in Keys : ValidEntry(k) =>
            /\ ~NewLive(k)
            /\ HitReturn(k) => /\ ret'.result = cache[k].data
                               /\ ret'.log = <<>>
                               /\ cache' = cache]_vars

\* a cached empty list was returned
CacheHitNoNetworkWitness ==
    /\ ret.how = "cache"
    /\ ret.result = EmptyList
    /\ ret.log = <<>>

\* ------------------------------------------------------------------------
\* C5: on a cache miss the live fetch comes first and the archival read, if
\* any, second; the archival read happens only after the live fetch threw
\* or returned an empty result, and only with a static file configured; in
\* every other case the live result (even an empty one) is cached under
\* the key with the current time and returned, and no archival read is made.
\* ------------------------------------------------------------------------
LiveThenArchival ==
    [][/\ \A call \in BagToSet(calls') :
            /\ call.log = IF call.pc = "live" THEN <<"live">> ELSE <<"live", "static">>
            /\ call.pc = "static" =>
                   HasStatic(call.key) /\ LiveEmptyOrThrew(call.liveRes)
       /\ Returned =>
            /\ ret'.log \in {<<>>, <<"live">>, <<"live", "static">>}
            /\ ret'.log = <<"live", "static">> =>
                   HasStatic(ret'.key) /\ LiveEmptyOrThrew(ret'.liveRes)
            /\ (/\ ret'.how # "cache"
                /\ ret'.liveRes.kind # "throw"
                /\ ~(ret'.liveRes = EmptyList /\ HasStatic(ret'.key)))
               => /\ ret'.result = ret'.liveRes
                  /\ ret'.log = <<"live">>
                  /\ cache'[ret'.key] =
                        [present |-> TRUE, data |-> ret'.liveRes, timestamp |-> now]]_vars

\* the archival read followed a live fetch that returned an empty list
LiveThenArchivalWitness ==
    /\ ret.log = <<"live", "static">>
    /\ ret.liveRes = EmptyList
    /\ ret.how = "static"

\* ------------------------------------------------------------------------
\* C6 as stated: every cache entry holds data that is neither null nor an
\* empty list.
\* ------------------------------------------------------------------------
OnlyNonEmptyCachedAnyKey ==
    \A k \in Keys : cache[k].present => ~isEmptyData(cache[k].data)

\* C6 amended: under a key with a static file every cache entry holds
\* non-empty data; an entry holding an empty list exists only under a key
\* without a static file; and a call that returns an empty result writes the
\* cache only when that result is the live fetch's own empty list and the
\* key has no static file.
OnlyNonEmptyCached ==
    [][/\ \A k \in Keys : cache'[k].present =>
            /\ cache'[k].data.kind \in {"array", "object"}
            /\ isEmptyData(cache'[k].data) => ~HasStatic(k)
       /\ (Returned /\ isEmptyData(ret'.result) /\ cache' # cache)
            => /\ ~HasStatic(ret'.key)
               /\ ret'.how = "live"
               /\ ret'.liveRes = EmptyList]_vars

\* a call ended with the empty result after an empty extraction and left no
\* entry behind
OnlyNonEmptyCachedWitness ==
    /\ ret.how = "empty"
    /\ HasStatic(ret.key)
    /\ ret.staticRes.ok
    /\ ret.staticRes.body.sub[ExtractField(ret.key)] = "empty"
    /\ ~cache[ret.key].present

\* ------------------------------------------------------------------------
\* C7: an entry is expired exactly when now - timestamp > 5 minutes; a read
\* that finds it expired removes it and goes on as a miss; a read of a valid
\* entry returns it and leaves the store unchanged; nothing but such a read
\* removes an entry.
\* ------------------------------------------------------------------------
ReadStep(k) == NewLive(k) \/ HitReturn(k)

LazyExpiry ==
    [][\A k \in Keys : cache[k].present =>
            /\ (ReadStep(k) /\ now - cache[k].timestamp > 5 * 60 * 1000)
                  => cache'[k] = NoEntry /\ NewLive(k)
            /\ (ReadStep(k) /\ now - cache[k].timestamp <= 5 * 60 * 1000)
                  => cache' = cache /\ HitReturn(k)
            /\ ~cache'[k].present
                  => NewLive(k) /\ now - cache[k].timestamp > 5 * 60 * 1000]_vars

\* an entry aged exactly five minutes was returned
LazyExpiryWitness ==
    /\ ret.how = "cache"
    /\ cache[ret.key].present
    /\ ret.result = cache[ret.key].data
    /\ ret.t - cache[ret.key].timestamp = 5 * 60 * 1000
    /\ ret.prior = "none"

\* ------------------------------------------------------------------------
\* Outcome of a resolution pass
\* ------------------------------------------------------------------------
Entries == 1..Len(leaders)

\* the records of the bucket that come from leader entry i
RecordsOf(i) == SelectSeq(bucket, LAMBDA rec : rec.rank = i)

\* the record of entry i with the given team and statistics block
RecordWith(i, team, ds) ==
    PlayerRecord(impl, cat, i, AthleteName(i), team, LeaderValue(i), ds)

\* ------------------------------------------------------------------------
\* C8: in every resolver, a leader entry whose team reference fails to
\* resolve while its athlete reference resolves yields a record with team
\* "N/A" and every other field as if the team had resolved.
\* ------------------------------------------------------------------------
TeamFailureKeepsEntry ==
    rpc = "done" =>
        \A i \in Entries :
            (leaders[i].athlete = "ok" /\ leaders[i].team = "fail") =>
                RecordsOf(i) = <<RecordWith(i, "N/A", StatsOf(cat, leaders[i]))>>

\* ------------------------------------------------------------------------
\* C9: in every resolver, a leader entry whose statistics reference fails to
\* resolve while its athlete reference resolves appears at its own rank
\* with yards from the leader's raw value and every detail statistic
\* defaulted, and fully resolved siblings keep their full records.
\* ------------------------------------------------------------------------
StatsFailureKeepsEntry ==
    rpc = "done" =>
        \A i \in Entries :
            /\ (leaders[i].athlete = "ok" /\ leaders[i].stats = "fail") =>
                  /\ RecordsOf(i) = <<RecordWith(i, TeamOf(leaders[i], i), NoStats)>>
                  /\ RecordsOf(i)[1].yards = Round(LeaderValue(i))
                  /\ cat = "qb" =>
                        /\ RecordsOf(i)[1].completions = 0
                        /\ RecordsOf(i)[1].attempts = 0
                        /\ RecordsOf(i)[1].compPct = "0.0%"
                        /\ RecordsOf(i)[1].tds = 0
                        /\ RecordsOf(i)[1].ints = 0
                        /\ RecordsOf(i)[1].rating = "0.0"
            /\ leaders[i] = [athlete |-> "ok", team |-> "ok", stats |-> "ok"] =>
                  RecordsOf(i) = <<RecordWith(i, TeamAbbreviation(i), SampleStats(cat))>>

\* ------------------------------------------------------------------------
\* C10: an entry whose athlete reference is absent or fails contributes no
\* record, and whatever entries fail, each other entry contributes exactly
\* the record it yields on its own, at its place in the order of the leaders.
\* ------------------------------------------------------------------------
OnItsOwn(i) ==
    IF impl = "batch" THEN ResolveBatch(cat, leaders[i], i)
    ELSE ResolveBrowser(cat, leaders[i], i)

IsolatedFailures ==
    rpc = "done" =>
        /\ \A i \in Entries : leaders[i].athlete # "ok" => RecordsOf(i) = <<>>
        /\ \A i \in Entries : RecordsOf(i) = OnItsOwn(i)
        /\ \A j \in 1..Len(bucket) : bucket[j].rank \in Entries
        /\ \A j \in 1..Len(bucket) - 1 : bucket[j].rank < bucket[j + 1].rank

\* the first entry's athlete failed and the second entry's record is there
IsolatedFailuresWitness ==
    /\ rpc = "done"
    /\ Len(leaders) >= 2
    /\ leaders[1].athlete = "fail"
    /\ Len(bucket) >= 1
    /\ bucket[1].rank = 2
    /\ bucket[1].name = AthleteName(2)

\* ------------------------------------------------------------------------
\* Progress of the entries of a resolution pass
\* ------------------------------------------------------------------------
\* the fetches of entry i have been issued
Submitted(i) ==
    IF impl = "browser" THEN rpc \in {"fanout", "done"}
    ELSE rpc \in {"loop", "done"} /\ idx > i

\* the resolution of entry i has completed
Finished(i) ==
    IF impl = "browser" THEN rpc \in {"fanout", "done"} /\ settled[i].done
    ELSE rpc \in {"loop", "done"} /\ idx > i

RECURSIVE InSubmissionOrder(_)
\* the records of the entries 1..n, each as it resolves on its own, in the
\* order of the leader list
InSubmissionOrder(n) ==
    IF n = 0 THEN <<>> ELSE InSubmissionOrder(n - 1) \o OnItsOwn(n)

\* ------------------------------------------------------------------------
\* C11 (as stated): in every resolver the entries of a category are
\* resolved as a concurrent fan-out joined by wait-for-all (no entry
\* completes before every entry has been submitted, and nothing is merged
\* into the bucket before every entry has completed), and the final bucket
\* is the sequence of records in submission order.
\* ------------------------------------------------------------------------
FanOutJoinedInOrderEveryResolver ==
    /\ \A i \in Entries : \A j \in Entries : Finished(i) => Submitted(j)
    /\ bucket # <<>> => \A i \in Entries : Finished(i)
    /\ rpc = "done" => bucket = InSubmissionOrder(Len(leaders))

\* ------------------------------------------------------------------------
\* C11 (amended): the browser-side resolvers resolve the entries as a
\* concurrent fan-out joined by wait-for-all; the batch resolver resolves
\* them one after the other; in both, for every completion order, the final
\* bucket is the sequence of records in submission order.
\* ------------------------------------------------------------------------
FanOutJoinedInOrder ==
    /\ impl = "browser" =>
          /\ \A i \in Entries : \A j \in Entries : Finished(i) => Submitted(j)
          /\ bucket # <<>> => \A i \in Entries : Finished(i)
    /\ impl = "batch" =>
          \A i \in Entries : \A j \in Entries : (Submitted(j) /\ i < j) => Finished(i)
    /\ rpc = "done" => bucket = InSubmissionOrder(Len(leaders))

\* the browser side joined two records whose fetches completed in the
\* reverse of the submission order
FanOutJoinedInOrderWitness ==
    /\ impl = "browser"
    /\ rpc = "done"
    /\ Len(leaders) >= 2
    /\ order[1] = 2
    /\ Len(bucket) >= 2
    /\ bucket[1].rank = 1
    /\ bucket[2].rank = 2

\* ------------------------------------------------------------------------
\* Period Calculator as seen from outside
\* ------------------------------------------------------------------------
\* the date lies between the start and the end of the season that
\* implementation i works with
InSeason(i, date) ==
    date.t >= seasonStart(i, date) /\ date.t <= regularSeasonEnd(i, date)

\* the dates tried that lie between the start of the season of the date and
\* the date, read in the same time zone
EarlierInSeason(i, date) ==
    LET start == seasonStart(i, date)
        first == IF start \div SecondsPerDay > FirstDay THEN start \div SecondsPerDay
                 ELSE FirstDay
        near == {[kind |-> "date", t |-> d * SecondsPerDay + s, tz |-> date.tz] :
                    d \in first..(date.t \div SecondsPerDay), s \in TimesOfDay}
    IN  {d1 \in near : d1.t >= start /\ d1.t <= date.t}

\* ------------------------------------------------------------------------
\* C15: getCurrentNFLWeek gives a week for every date: 1 for a date before
\* the season start, 18 for a date after the season end, and otherwise
\* floor((date - seasonStart) / 7 days) + 1, capped at 18.
\* ------------------------------------------------------------------------
ComputeWeekByCases ==
    pout.kind = "week" =>
        LET start == seasonStart(pout.impl, parg)
            end == regularSeasonEnd(pout.impl, parg)
        IN  /\ pout.value \in Int
            /\ parg.t < start => pout.value = 1
            /\ (parg.t >= start /\ parg.t > end) => pout.value = 18
            /\ (parg.t >= start /\ parg.t <= end) =>
                  \E w \in 0..52 :
                      /\ w * (7 * 24 * 60 * 60) <= parg.t - start
                      /\ parg.t - start < (w + 1) * (7 * 24 * 60 * 60)
                      /\ pout.value = IF w + 1 > 18 THEN 18 ELSE w + 1

\* a date of the nineteenth week after the start, still before the end of
\* the season: the cap applies
ComputeWeekByCasesWitness ==
    /\ pout.kind = "week"
    /\ pout.impl = "batch"
    /\ InSeason("batch", parg)
    /\ parg.t - seasonStart("batch", parg) >= 18 * (7 * 24 * 60 * 60)
    /\ pout.value = 18

\* ------------------------------------------------------------------------
\* C16: the computed week lies in 1..18 for every date, and among the dates
\* between the start and the end of one season a later date never has a
\* smaller week than an earlier one.
\* ------------------------------------------------------------------------
WeekInRangeAndMonotone ==
    pout.kind = "week" =>
        /\ pout.value \in 1..18
        /\ InSeason(pout.impl, parg) =>
              \A d1 \in EarlierInSeason(pout.impl, parg) :
                  getCurrentNFLWeek(pout.impl, d1) <= pout.value

\* a date in the fifth week of a season, with the dates of the four weeks
\* before it in the same season
WeekInRangeAndMonotoneWitness ==
    /\ pout.kind = "week"
    /\ InSeason(pout.impl, parg)
    /\ pout.value = 5
    /\ \E d1 \in EarlierInSeason(pout.impl, parg) :
          d1.t < parg.t /\ getCurrentNFLWeek(pout.impl, d1) = 1

\* ------------------------------------------------------------------------
\* C17: getCurrentNFLSeason gives year - 1 for a date in January through
\* August and the year for a date in September through December, and the
\* season of every leaders request, batch or browser side, is that value.
\* ------------------------------------------------------------------------
SeasonComputedEverywhere ==
    pout.kind \in {"season", "current", "fallback"} =>
        pout.value = IF getMonth(parg) + 1 \in 1..8 THEN getFullYear(parg) - 1
                     ELSE getFullYear(parg)

\* ------------------------------------------------------------------------
\* C18: a call of either adapter issues one request and settles once:
\* with a timeout failure when nothing arrives in time, with an HTTP failure
\* for every status outside 200..299, with a parse failure for a 2xx
\* response whose body is invalid, and with the parsed body for every 2xx
\* response whose body is valid.
\* ------------------------------------------------------------------------
OneRequestOneSettlement ==
    pfn \in {"settled", "closed"} =>
        /\ pout.requests = 1
        /\ pout.settled = 1
        /\ parg.net = "error" => pout.kind = "failed"
        /\ parg.net = "timeout" => pout.kind = "timeout"
        /\ parg.net = "response" =>
              /\ parg.status \notin 200..299 => pout.kind = "http"
              /\ (parg.status \in 200..299 /\ parg.body = "invalid") => pout.kind = "parse"
              /\ (parg.status \in 200..299 /\ parg.body = "valid") => pout.kind = "parsed"

\* ------------------------------------------------------------------------
\* Category Normalizer as seen from outside
\* ------------------------------------------------------------------------
\* the fields of the record of a category
DeclaredFields(c) ==
    {"rank", "name", "team", "games", "yards", "tds"}
        \cup (CASE c = "qb" -> {"completions", "attempts", "compPct", "ints", "rating"}
                [] c = "receivers" -> {"receptions", "targets", "avg", "long", "ypg"}
                [] OTHER -> {"attempts", "avg", "long", "ypg", "fumbles"})

\* the fields that hold a formatted ratio
RatioFields == {"compPct", "rating", "avg", "ypg"}

\* the fields taken from the statistics block, each with its ordered list
\* of accepted names
StatFields(i, c) ==
    (DeclaredFields(c) \ {"rank", "name", "team"}) \ (IF i = "legacy" THEN {} ELSE {"yards"})

AliasList(i, c, f) ==
    CASE f = "games" -> IF i = "legacy" THEN <<"gamesPlayed">>
                        ELSE <<"gamesPlayed", "teamGamesPlayed">>
      [] f = "yards" -> CASE c = "qb" -> <<"passingYards">>
                          [] c = "receivers" -> <<"receivingYards">>
                          [] OTHER -> <<"rushingYards">>
      [] f = "completions" -> <<"completions">>
      [] f = "attempts" -> IF c = "qb" THEN <<"passingAttempts">> ELSE <<"rushingAttempts">>
      [] f = "compPct" -> <<"completionPct">>
      [] f = "ints" -> <<"interceptions">>
      [] f = "rating" -> <<"quarterbackRating", "QBRating">>
      [] f = "receptions" -> <<"receptions">>
      [] f = "targets" -> <<"receivingTargets">>
      [] f = "tds" -> CASE c = "qb" -> <<"passingTouchdowns">>
                        [] c = "receivers" -> <<"receivingTouchdowns">>
                        [] OTHER -> <<"rushingTouchdowns">>
      [] f = "long" -> IF c = "receivers" THEN <<"longReception">> ELSE <<"longRushing">>
      [] f = "avg" -> (IF c = "receivers" THEN <<"yardsPerReception">>
                       ELSE <<"yardsPerRushAttempt">>)
                          \o (IF i = "browser" THEN <<>> ELSE <<"avgYards">>)
      [] f = "ypg" -> CASE i = "legacy" -> <<"yardsPerGame">>
                        [] i = "browser" -> IF c = "receivers" THEN <<"receivingYardsPerGame">>
                                            ELSE <<"rushingYardsPerGame">>
                        [] OTHER -> IF c = "receivers"
                                    THEN <<"receivingYardsPerGame", "yardsPerGame">>
                                    ELSE <<"rushingYardsPerGame", "yardsPerGame">>
      [] OTHER -> CASE i = "legacy" -> <<"fumblesLost">>
                    [] i = "browser" -> <<"rushingFumbles">>
                    [] OTHER -> <<"rushingFumbles", "fumblesLost">>

\* the field's value for a source number v given in tenths
Formatted(i, f, v) ==
    CASE f = "compPct" -> ToFixed1(v) \o "%"
      [] f \in RatioFields -> ToFixed1(v)
      [] i = "legacy" -> v \div 10
      [] OTHER -> (v + 5) \div 10

RECURSIVE FirstPresent(_, _)
\* the value under the first name of the list that the block carries, 0
\* when it carries none of them
FirstPresent(names, ds) ==
    IF names = <<>> THEN 0
    ELSE IF Head(names) \in DOMAIN ds THEN ds[Head(names)]
    ELSE FirstPresent(Tail(names), ds)

\* none of the names of the field is in the block
AllAbsent(i, c, f, ds) ==
    \A k \in 1..Len(AliasList(i, c, f)) : AliasList(i, c, f)[k] \notin DOMAIN ds

\* ------------------------------------------------------------------------
\* C12: for every category and every set of missing statistics each
\* normalizer yields a record with exactly the declared fields, every
\* numeric field a number, every ratio and label a string, and the default
\* (0, "0.0", "0.0%") in every field whose statistics are all absent.
\* ------------------------------------------------------------------------
TotalNullFree ==
    pfn = "normalized" =>
        /\ DOMAIN pout = DeclaredFields(parg.cat)
        /\ pout.name \in STRING /\ pout.name # ""
        /\ pout.team \in STRING /\ pout.team # ""
        /\ \A f \in DeclaredFields(parg.cat) \ ({"name", "team"} \cup RatioFields) :
              pout[f] \in Nat
        /\ \A f \in DeclaredFields(parg.cat) \cap RatioFields : pout[f] \in STRING
        /\ \A f \in StatFields(parg.impl, parg.cat) :
              AllAbsent(parg.impl, parg.cat, f, parg.stats) =>
                  pout[f] = Formatted(parg.impl, f, 0)

\* a quarterback with no statistics block, no names and no raw value
TotalNullFreeWitness ==
    /\ pfn = "normalized"
    /\ parg.cat = "qb"
    /\ parg.impl = "batch"
    /\ parg.athlete = "neither"
    /\ DOMAIN parg.stats = {}
    /\ pout = [rank |-> 1, name |-> "Unknown", team |-> "N/A", games |-> 0,
               completions |-> 0, attempts |-> 0, compPct |-> "0.0%", yards |-> 0,
               tds |-> 0, ints |-> 0, rating |-> "0.0"]

\* ------------------------------------------------------------------------
\* C13: every field taken from the statistics holds the value under the
\* first name of its alias list that is present, whatever that value is (0
\* included), and the default only when no name of the list is present.
\* ------------------------------------------------------------------------
FirstPresentNameWins ==
    pfn = "normalized" =>
        \A f \in StatFields(parg.impl, parg.cat) :
            pout[f] = Formatted(parg.impl, f,
                                FirstPresent(AliasList(parg.impl, parg.cat, f), parg.stats))

\* ------------------------------------------------------------------------
\* C14: in every fetch implementation a leader-board category named
\* "passingYards" or "passing" goes to qb, "receivingYards" or "receiving" to
\* receivers, "rushingYards" or "rushing" to rushers, and a category with
\* any other name goes to no bucket.
\* ------------------------------------------------------------------------
BothConventionsAccepted ==
    pfn = "matched" =>
        pout.value = CASE parg.name \in {"passingYards", "passing"} -> {"qb"}
                       [] parg.name \in {"receivingYards", "receiving"} -> {"receivers"}
                       [] parg.name \in {"rushingYards", "rushing"} -> {"rushers"}
                       [] OTHER -> {}

\* ------------------------------------------------------------------------
\* A run of fetchPlayerStats as seen from outside
\* ------------------------------------------------------------------------
\* fetchPlayerStats has returned
BatchReturned == bpc \in {"returned", "saved"}

\* the sequence without its element j
Without(cs, j) == SubSeq(cs, 1, j - 1) \o SubSeq(cs, j + 1, Len(cs))

\* the sequence with v in place of its element j
Replaced(cs, j, v) == [cs EXCEPT ![j] = v]

\* the category of the response is processed and every fetch for it fails
FetchesFail(category) ==
    /\ category.shape = "object"
    /\ targetKey(category.name) # "null"
    /\ Len(category.leaders) >= 1
    /\ \A i \in 1..Len(category.leaders) : category.leaders[i].athlete = "fail"

\* the same category with every fetch for it succeeding
Succeeding(category) ==
    [category EXCEPT !.leaders = [i \in 1..Len(category.leaders) |-> AllResolve]]

\* the categories of a response that are processed: those before the first
\* null element
RECURSIVE Processed(_)
Processed(cs) ==
    IF cs = <<>> \/ Head(cs).shape = "null" THEN <<>>
    ELSE <<Head(cs)>> \o Processed(Tail(cs))

\* the pass over the response ends in an error
EndsInError(resp) ==
    resp.kind # "categories"
        \/ \E j \in 1..Len(resp.categories) : resp.categories[j].shape = "null"

RECURSIVE Contribution(_, _, _)
\* the records that the categories cs, processed in order, put in bucket k
Contribution(k, cs, pass) ==
    IF cs = <<>> THEN <<>>
    ELSE (IF Head(cs).shape = "object" /\ targetKey(Head(cs).name) = k
          THEN CategoryRecords(k, Head(cs).leaders, LeaderLimit(pass, Len(Head(cs).leaders)))
          ELSE <<>>)
            \o Contribution(k, Tail(cs), pass)

\* bucket k after a run that received the categories cs for the current
\* season and, if that pass ended in an error, fs for season 2024
BucketOf(k, cs, fs) ==
    Contribution(k, Processed(cs), "current")
        \o (IF EndsInError(Categories(cs)) THEN Contribution(k, Processed(fs), "fallback")
            ELSE <<>>)

\* ------------------------------------------------------------------------
\* C19: when every fetch for one category fails, that category puts nothing
\* in its bucket, and each of the other buckets holds exactly what it would
\* hold had the category succeeded or been absent; in the older
\* fetchPlayerStats a rejected category request gives an empty bucket for
\* its key and leaves the other buckets as their own responses make them.
\* ------------------------------------------------------------------------
CategoryFailureIsolated ==
    BatchReturned =>
        /\ (bimpl = "batch" /\ data.kind = "categories") =>
              \A j \in 1..Len(data.categories) :
                  FetchesFail(data.categories[j]) =>
                      \A k \in Cats :
                          /\ playerStats[k] =
                                BucketOf(k, Without(data.categories, j),
                                         fallbackData.categories)
                          /\ k # targetKey(data.categories[j].name) =>
                                playerStats[k] =
                                    BucketOf(k, Replaced(data.categories, j,
                                                         Succeeding(data.categories[j])),
                                             fallbackData.categories)
        /\ bimpl = "legacy" =>
              \A j \in 1..Len(LegacyKeys) :
                  /\ data.categories[j].kind = "rejected" => playerStats[LegacyKeys[j]] = <<>>
                  /\ playerStats[LegacyKeys[j]] = LegacyBucket(LegacyKeys[j], data.categories[j])

\* every fetch for the passing category failed and the receiving category,
\* served after it, filled its bucket
CategoryFailureIsolatedWitness ==
    /\ BatchReturned
    /\ bimpl = "batch"
    /\ data.kind = "categories"
    /\ Len(data.categories) = 2
    /\ data.categories[1].name = "passingYards"
    /\ FetchesFail(data.categories[1])
    /\ data.categories[2].name = "receivingYards"
    /\ playerStats["qb"] = <<>>
    /\ Len(playerStats["receivers"]) >= 1
    /\ requests = <<"current">>

\* ------------------------------------------------------------------------
\* C20: the batch fetchPlayerStats never throws; whatever the leaders
\* requests give, it returns an object with the three collections qb,
\* receivers and rushers, each a list, and that object is what is written
\* to the player-stats file.
\* ------------------------------------------------------------------------
ThreeCollectionsAlways ==
    bimpl = "batch" =>
        /\ bpc # "threw"
        /\ BatchReturned =>
              /\ DOMAIN playerStats = {"qb", "receivers", "rushers"}
              /\ \A k \in DOMAIN playerStats :
                    DOMAIN playerStats[k] = 1..Len(playerStats[k])
        /\ bpc = "saved" => saved.written /\ saved.content = playerStats
        /\ bpc # "saved" => ~saved.written

\* both leaders requests failed and the file holds three empty lists
ThreeCollectionsAlwaysWitness ==
    /\ bimpl = "batch"
    /\ bpc = "saved"
    /\ data = Rejected
    /\ fallbackData = Rejected
    /\ requests = <<"current", "2024">>
    /\ saved.content = [k \in {"qb", "receivers", "rushers"} |-> <<>>]

\* the current-season leaders request gave no usable player data: it
\* failed, its structure was invalid, or no record came out of it
NoUsablePlayerData ==
    \/ data.kind \in {"rejected", "invalid"}
    \/ /\ data.kind = "categories"
       /\ \A k \in Cats : Contribution(k, Processed(data.categories), "current") = <<>>

\* ------------------------------------------------------------------------
\* C21: whenever the current-season leaders request yields no usable player
\* data (request failure, invalid structure, or no players), the batch
\* fetchPlayerStats issues a second leaders request for season 2024 and the
\* records of that response populate the buckets.
\* ------------------------------------------------------------------------
FallsBackWhenUnavailable ==
    (bimpl = "batch" /\ BatchReturned /\ NoUsablePlayerData) =>
        /\ requests = <<"current", "2024">>
        /\ \A k \in Cats :
              playerStats[k] = Contribution(k, Processed(fallbackData.categories), "fallback")

\* a new call left the cache lookup and started its live fetch, or was
\* answered from the cache
CallStarts == \E k \in Keys : Start(k)

\* the value a call returned is data or the empty list, never an error
DataOrEmpty ==
    ret.how # "none" =>
        /\ ret.how \in {"cache", "live", "static", "empty"}
        /\ ret.result.kind \in {"array", "object"}
        /\ isEmptyData(ret.result) => ret.result = EmptyList

\* ------------------------------------------------------------------------
\* C22: provided every network request that is started settles, every call
\* to fetchWithCache returns (once no further call starts, no call stays in
\* flight), and what a call returns is data or the empty list, never an
\* error.
\* ------------------------------------------------------------------------
EveryCallReturns ==
    /\ []<><<CallStarts>>_vars \/ <>[](calls = EmptyBag)
    /\ []DataOrEmpty

\* a call went through the live fetch and the static file and returned the
\* empty list, and no call is left in flight
EveryCallReturnsWitness ==
    /\ calls = EmptyBag
    /\ ret.how = "empty"
    /\ ret.log = <<"live", "static">>
    /\ ret.result = EmptyList

\* the entry under key k is within its window and holds what a live fetch
\* returned
HoldsLive(store, k, t) ==
    /\ store[k].present
    /\ ~Expired(store[k], t)
    /\ store[k].data = JArr(<<"live">>)

\* the entry under key k holds what came out of the static file
HoldsArchival(store, k) ==
    /\ store[k].present
    /\ \/ store[k].data.kind = "object"
       \/ store[k].data.kind = "array" /\ store[k].data.elems \in {<<f>> : f \in Fields}

\* ------------------------------------------------------------------------
\* C28: under any interleaving of two overlapping calls for the same key,
\* both started on a cache miss, a cache entry that holds live data and has
\* not expired is never replaced by archival data.
\* ------------------------------------------------------------------------
LiveEntryNotReplacedByArchival ==
    [][\A k \in Keys : HoldsLive(cache, k, now) => ~HoldsArchival(cache', k)]_vars

\* a list, possibly empty, of player records of the category of getter key
\* k: records the live fetch of the getter produced, or records of its own
\* sub-field of the static file
OwnCategoryList(k, d) ==
    /\ d.kind = "array"
    /\ \A i \in 1..Len(d.elems) : d.elems[i] \in {"live", ExtractField(k)}

\* ------------------------------------------------------------------------
\* C29: whatever the live fetch and the static file give, a player-stats
\* getter (getQBStats, getReceiverStats, getRushingStats) returns a list,
\* possibly empty, of player records of its own category, and what it
\* caches is such a list too.
\* ------------------------------------------------------------------------
GetterReturnsOwnList ==
    \A k \in Keys :
        HasExtract(k) =>
            /\ ret.key = k => OwnCategoryList(k, ret.result)
            /\ cache[k].present => OwnCategoryList(k, cache[k].data)

\* the positions of the source leader list whose entries gave a record
Surviving ==
    {i \in 1..Len(leaders) :
        IF impl = "browser" THEN ~BrowserEntryThrows(leaders[i])
        ELSE ~BatchEntryFails(leaders[i])}

\* ------------------------------------------------------------------------
\* C25: the rank of a player record is the 1-based position of its leader
\* entry in the source leader list, not its position in the bucket: the
\* ranks of a bucket are exactly the positions of the entries that gave a
\* record (gaps are kept where entries were dropped), and they increase
\* strictly along the bucket.
\* ------------------------------------------------------------------------
RankIsSourcePosition ==
    rpc = "done" =>
        /\ {bucket[j].rank : j \in 1..Len(bucket)} = Surviving
        /\ \A j \in 1..Len(bucket) : bucket[j].name = AthleteName(bucket[j].rank)
        /\ \A j, k \in 1..Len(bucket) : j < k => bucket[j].rank < bucket[k].rank

\* the first entry was dropped and the record of the second keeps rank 2
RankIsSourcePositionWitness ==
    /\ rpc = "done"
    /\ Len(leaders) = 2
    /\ 1 \notin Surviving
    /\ Len(bucket) = 1
    /\ bucket[1].rank = 2
    /\ impl = "batch"

\* ------------------------------------------------------------------------
\* C26: for every leaders response the batch fetchPlayerStats can receive,
\* each bucket it returns holds at most 15 records and no two records of one
\* bucket have the same rank.
\* ------------------------------------------------------------------------
BucketsBoundedDistinctRanks ==
    (bimpl = "batch" /\ BatchReturned) =>
        \A k \in Cats :
            /\ Len(playerStats[k]) <= 15
            /\ \A i, j \in 1..Len(playerStats[k]) :
                  i # j => playerStats[k][i].rank # playerStats[k][j].rank

\* ------------------------------------------------------------------------
\* C27: in the batch fetchPlayerStats the 2024 pass starts only with all
\* three buckets empty, so every bucket returned holds records of exactly
\* one season's leaders response.
\* ------------------------------------------------------------------------
SeasonsNeverMixed ==
    bimpl = "batch" =>
        /\ bpc \in {"catch", "fallbackAwait"} => playerStats = NoBuckets
        /\ BatchReturned =>
              \A k \in Cats :
                  \/ playerStats[k] = Contribution(k, Processed(data.categories), "current")
                  \/ playerStats[k] = Contribution(k, Processed(fallbackData.categories),
                                                   "fallback")

\* the keys the NFLAPI getters use
GetterKeys == {"schedule_1_2024", "team_stats", "qb_stats", "receiver_stats", "rushing_stats"}

\* no entry is stored under a getter key
NoGetterEntry(store) == \A k \in GetterKeys \cap DOMAIN store : ~store[k].present

Succeeded == {i \in 1..Len(parg.value) : parg.value[i].ok}

\* ------------------------------------------------------------------------
\* C24: whichever of the per-team requests fail, fetchTeamStats returns a
\* list that holds exactly the teams whose request succeeded, each once,
\* sorted by non-increasing win percentage, with the rank of each record
\* equal to its position in the list (1..n without gaps).
\* ------------------------------------------------------------------------
TeamsSortedRankedByPosition ==
    (pfn = "fetchTeamStats" /\ pout # NoOut) =>
        LET teams == pout.value
        IN  /\ Len(teams) = Cardinality(Succeeded)
            /\ {teams[j].team : j \in 1..Len(teams)} = Succeeded
            /\ \A j \in 1..Len(teams) :
                  /\ teams[j].rank = j
                  /\ teams[j].wins = parg.value[teams[j].team].wins
                  /\ teams[j].losses = parg.value[teams[j].team].losses
            /\ \A j, k \in 1..Len(teams) : j < k => teams[j].winPct >= teams[k].winPct

\* the request of the first team failed, the third team has the better
\* record and comes first with rank 1
TeamsSortedRankedByPositionWitness ==
    /\ pfn = "fetchTeamStats"
    /\ pout # NoOut
    /\ ~parg.value[1].ok
    /\ Len(pout.value) = 2
    /\ pout.value[1].team = 3
    /\ pout.value[1].rank = 1
    /\ pout.value[2].team = 2
    /\ pout.value[1].winPct > pout.value[2].winPct

\* the files main saves when every write succeeds, in order: the odds file
\* only when the odds result is not null, the metadata last
ExpectedWrites(res) ==
    <<"schedule.json", "standings.json", "team-stats.json", "player-stats.json">>
        \o (IF OddsGiven(res) THEN <<"odds.json">> ELSE <<>>)
        \o <<"metadata.json">>

\* the files written so far
Written == {writes[j] : j \in 1..Len(writes)}

\* the fetch step whose result goes to a data file
StepOf(name) ==
    CASE name = "schedule.json" -> "schedule"
      [] name = "standings.json" -> "standings"
      [] name = "team-stats.json" -> "teamStats"
      [] name = "player-stats.json" -> "playerStats"
      [] OTHER -> "odds"

\* the sizes of the data the files written in this run hold
SizesWritten ==
    [schedule |-> Len(files["schedule.json"].data.games),
     standings |-> Cardinality(DOMAIN files["standings.json"].data),
     teamStats |-> Len(files["team-stats.json"].data.teams),
     qb |-> Len(files["player-stats.json"].data["qb"]),
     receivers |-> Len(files["player-stats.json"].data["receivers"]),
     rushers |-> Len(files["player-stats.json"].data["rushers"]),
     odds |-> IF "odds.json" \in Written THEN Len(files["odds.json"].data.odds) ELSE 0]

\* ------------------------------------------------------------------------
\* C23: in a run of main no snapshot file is written until the five fetch
\* steps (schedule, standings, team stats, player stats, odds) have
\* completed; the files are then written in the order schedule, standings,
\* team-stats, player-stats, odds (only when the odds result is not null),
\* metadata last; a write replaces the value of its own file only; and the
\* record counts in the metadata equal the sizes of the data written in the
\* same run.
\* ------------------------------------------------------------------------
SnapshotWrittenInOrder ==
    mpc # 0 =>
        /\ writes # <<>> => DOMAIN fetched = {FetchSteps[i] : i \in 1..Len(FetchSteps)}
        /\ DOMAIN fetched # {FetchSteps[i] : i \in 1..Len(FetchSteps)} =>
              \A f \in DOMAIN files : files[f].run = 0
        /\ writes # <<>> =>
              /\ Len(writes) <= Len(ExpectedWrites(fetched))
              /\ writes = SubSeq(ExpectedWrites(fetched), 1, Len(writes))
        /\ mpc = Len(FetchSteps) + Len(SaveCalls) + 1 => writes = ExpectedWrites(fetched)
        /\ \A f \in DOMAIN files :
              /\ f \notin Written => files[f].run = 0
              /\ f \in Written =>
                    /\ files[f].present
                    /\ files[f].run = 1
                    /\ f # "metadata.json" => files[f].data = fetched[StepOf(f)]
        /\ "metadata.json" \in Written => files["metadata.json"].data = SizesWritten

\* main ran to its end with odds null: five files were written, metadata
\* last, and the odds file of an earlier run is still there
SnapshotWrittenInOrderWitness ==
    /\ mpc = Len(FetchSteps) + Len(SaveCalls) + 1
    /\ ~OddsGiven(fetched)
    /\ writes = <<"schedule.json", "standings.json", "team-stats.json",
                  "player-stats.json", "metadata.json">>
    /\ files["odds.json"].present
    /\ files["odds.json"].run = 0
    /\ files["metadata.json"].data.qb = 1
    /\ Len(fetched["playerStats"]["qb"]) = 1

====
